---- MODULE Spec2Model ----
(***************************************************************************)
(* Model of github.com/emad-elsaid/types: the ordered fan-out/fan-in       *)
(* engine (chan.go) and the lazily executed command pipeline (command.go). *)
(***************************************************************************)
EXTENDS Integers, Sequences, FiniteSets, TLC

(***************************************************************************)
(* Bounds of the model.                                                    *)
(***************************************************************************)
MaxItems == 3
MaxWorkers == 3
MaxCap == 1
MaxLaneItems == 6

(***************************************************************************)
(* Part I: OrderedParallelizeChan (chan.go).                               *)
(*                                                                         *)
(* A channel is a record: isNil (a nil channel), buf (the queued items),   *)
(* closed.  Channels of capacity 0 hand an item over in one step taken by  *)
(* the receiver while the sender stands at its send statement.             *)
(***************************************************************************)
VARIABLES
    items,          \* the whole input sequence the producer will send
    src,            \* what the producer has not sent yet
    input,          \* the input channel
    capacity,       \* cap(input)
    laneCap,        \* capacity of the channel a lane stage returns
    workers,        \* the workers argument, coerced by the call
    workersArg,     \* the workers argument as the caller passed it
    process,        \* the process argument: which lane stage the caller passed
    pcMain,         \* "ready" before the call, "returned" after it
    processCalls,   \* how many times process() has been called
    workerInputs,   \* sequence of lane input channels
    workerOutputs,  \* sequence of lane output channels
    output,         \* the result channel
    dist,           \* distribution goroutine: pc, index, item, closeIdx
    lanes,          \* lane goroutines: pc, item
    merge,          \* merge goroutine: pc, index, activeCount, val, nilled
    result,         \* what the consumer has received so far
    consumerDone    \* the consumer saw the result channel closed

chanVars == <<items, workersArg, process, src, input, capacity, laneCap, workers, pcMain,
              processCalls, workerInputs, workerOutputs, output, dist, lanes,
              merge, result, consumerDone>>

\* State of the command pipelines (Part II).
VARIABLES
    cmds,           \* the Command objects, by address (0 is the nil pointer)
    stack,          \* the call stack of execute(): frames c, attempt, pc
    hist,           \* per Command: runs of its work, accessor returns, sleeps
    tokens          \* the cancellable contexts created so far

cmdVars == <<cmds, stack, hist, tokens>>

\* State of one call of ChanProcessor or ChanFilter (Part III).
VARIABLES
    stage           \* input, output, the goroutine, producer and consumer

stageVars == <<stage>>

vars == <<chanVars, cmdVars, stageVars>>

NilChan == [isNil |-> TRUE, buf |-> <<>>, closed |-> FALSE]
MakeChan == [isNil |-> FALSE, buf |-> <<>>, closed |-> FALSE]

Put(ch, v) == [ch EXCEPT !.buf = Append(@, v)]
Take(ch) == [ch EXCEPT !.buf = Tail(@)]
Close(ch) == [ch EXCEPT !.closed = TRUE]
DrainedNotClosed(ch) == ch.buf = <<>>
\* A receive reports the channel closed: closed and nothing queued.
Drained(ch) == ch.closed /\ ch.buf = <<>>

\* The per-lane stage of the tests: one output per input, the item doubled.
Process(x) == 2 * x

\* The filter of the tests: even items pass.
Filter(x) == x % 2 = 0

CoerceWorkersToTwo(w) == IF w < 1 THEN 2 ELSE w
\* workers < 1 is coerced to 1.
CoerceWorkers(w) == IF w < 1 THEN 1 ELSE w

DistLaneShifted(index, w) == ((index + 1) % w) + 1
\* Lane (1-based) the distribution task routes item number index to.
DistLane(index, w) == (index % w) + 1

MergeLaneShifted(index, w) == ((index + 1) % w) + 1
\* Lane (1-based) the merge task pulls from at merge step index.
MergeLane(index, w) == (index % w) + 1

AllClosedEarly(closeIdx, w) == closeIdx >= w
\* The closing loop of the distribution task is over.
AllClosed(closeIdx, w) == closeIdx > w

WorkerArgs == {-1, 0} \cup (1..MaxWorkers)

\* The goroutines before the call starts them.  sent, closed, from, retired
\* and closes record what the goroutine has done so far: the sends on lane
\* inputs as <<lane, item>>, the lane inputs closed, the lane the last
\* value came from, the lanes retired, the number of close(output).
NoDist == [pc |-> "idle", index |-> 0, item |-> 0, closeIdx |-> 1,
           sent |-> <<>>, closed |-> <<>>]
NoMerge == [pc |-> "idle", index |-> 0, activeCount |-> 0, val |-> 0,
            nilled |-> <<>>, from |-> 0, retired |-> <<>>, closes |-> 0]

\* A lane goroutine at its start; sum and count are those of the batching
\* stage, got records the items the lane has received from its input and
\* out the items it has sent on its output.
NewLane == [pc |-> "range", item |-> 0, sum |-> 0, count |-> 0,
            got |-> <<>>, out |-> <<>>]

RECURSIVE UpTo(_)
UpTo(n) == IF n = 0 THEN <<>> ELSE Append(UpTo(n - 1), n)

InitChan ==
    /\ \E n \in 0..MaxItems : items = UpTo(n)
    /\ src = items
    /\ input \in {NilChan, MakeChan}
    /\ capacity \in 0..MaxCap
    /\ laneCap \in {0, capacity}
    /\ workers \in WorkerArgs
    /\ workersArg = workers
    /\ process = "map"
    /\ pcMain = "ready"
    /\ processCalls = 0
    /\ workerInputs = <<>>
    /\ workerOutputs = <<>>
    /\ output = NilChan
    /\ dist = NoDist
    /\ lanes = <<>>
    /\ merge = NoMerge
    /\ result = <<>>
    /\ consumerDone = FALSE

\* The producer (the caller's goroutine feeding the input channel).
ProducerSend ==
    /\ ~input.isNil /\ ~input.closed
    /\ src # <<>>
    /\ Len(input.buf) < capacity
    /\ input' = Put(input, Head(src))
    /\ src' = Tail(src)
    /\ UNCHANGED <<items, workersArg, process, capacity, laneCap, workers, pcMain, processCalls,
                   workerInputs, workerOutputs, output, dist, lanes, merge,
                   result, consumerDone>>
    /\ UNCHANGED <<cmdVars, stageVars>>

ProducerClose ==
    /\ ~input.isNil /\ ~input.closed
    /\ src = <<>>
    /\ input' = Close(input)
    /\ UNCHANGED <<items, workersArg, process, src, capacity, laneCap, workers, pcMain,
                   processCalls, workerInputs, workerOutputs, output, dist,
                   lanes, merge, result, consumerDone>>
    /\ UNCHANGED <<cmdVars, stageVars>>

CallNilEmptyClosed ==
    /\ pcMain = "ready"
    /\ input.isNil
    /\ pcMain' = "returned"
    /\ output' = Close(MakeChan)
    /\ UNCHANGED <<items, workersArg, process, src, input, capacity, laneCap, workers,
                   processCalls, workerInputs, workerOutputs, dist, lanes,
                   merge, result, consumerDone>>
    /\ UNCHANGED <<cmdVars, stageVars>>
\* The body of OrderedParallelizeChan up to its return.
CallNil ==
    /\ pcMain = "ready"
    /\ input.isNil
    /\ pcMain' = "returned"
    /\ output' = NilChan
    /\ UNCHANGED <<items, workersArg, process, src, input, capacity, laneCap, workers,
                   processCalls, workerInputs, workerOutputs, dist, lanes,
                   merge, result, consumerDone>>
    /\ UNCHANGED <<cmdVars, stageVars>>

Call ==
    /\ pcMain = "ready"
    /\ ~input.isNil
    /\ LET w == CoerceWorkers(workers) IN
        /\ workers' = w
        /\ workerInputs' = [i \in 1..w |-> MakeChan]
        /\ workerOutputs' = [i \in 1..w |-> MakeChan]
        /\ processCalls' = w
        /\ lanes' = [i \in 1..w |-> NewLane]
        /\ dist' = [dist EXCEPT !.pc = "range"]
        /\ merge' = [NoMerge EXCEPT !.pc = "loop", !.activeCount = w,
                                    !.nilled = [i \in 1..w |-> FALSE]]
    /\ output' = MakeChan
    /\ pcMain' = "returned"
    /\ UNCHANGED <<items, workersArg, process, src, input, capacity, laneCap, result,
                   consumerDone>>
    /\ UNCHANGED <<cmdVars, stageVars>>

\* for item := range input
DistRecv ==
    /\ dist.pc = "range"
    /\ \/ /\ input.buf # <<>>
          /\ dist' = [dist EXCEPT !.pc = "send", !.item = Head(input.buf)]
          /\ input' = Take(input)
          /\ src' = src
       \/ /\ capacity = 0 /\ ~input.closed /\ src # <<>>
          /\ dist' = [dist EXCEPT !.pc = "send", !.item = Head(src)]
          /\ src' = Tail(src)
          /\ input' = input
       \/ /\ Drained(input)
          /\ dist' = [dist EXCEPT !.pc = "close", !.closeIdx = 1]
          /\ UNCHANGED <<input, src>>
    /\ UNCHANGED <<items, workersArg, process, capacity, laneCap, workers, pcMain, processCalls,
                   workerInputs, workerOutputs, output, lanes, merge, result,
                   consumerDone>>
    /\ UNCHANGED <<cmdVars, stageVars>>

WorkerInputCapPlusOne == capacity + 1
\* workerInputs[i] = make(chan In, capacity)
WorkerInputCap == capacity

\* The distribution task after its send on lane l went through: index++
DistSent(d, l) ==
    [d EXCEPT !.pc = "range", !.index = @ + 1, !.sent = Append(@, <<l, d.item>>)]

\* workerInputs[index%workers] <- item; index++   (buffered lane input)
DistSend ==
    /\ dist.pc = "send"
    /\ LET l == DistLane(dist.index, workers) IN
        /\ Len(workerInputs[l].buf) < WorkerInputCap
        /\ workerInputs' = [workerInputs EXCEPT ![l] = Put(@, dist.item)]
        /\ dist' = DistSent(dist, l)
    /\ UNCHANGED <<items, workersArg, process, src, input, capacity, laneCap, workers, pcMain,
                   processCalls, workerOutputs, output, lanes, merge, result,
                   consumerDone>>
    /\ UNCHANGED <<cmdVars, stageVars>>

\* for _, ch := range workerInputs { close(ch) }
DistClose ==
    /\ dist.pc = "close"
    /\ IF AllClosed(dist.closeIdx, workers)
       THEN /\ dist' = [dist EXCEPT !.pc = "done"]
            /\ workerInputs' = workerInputs
       ELSE /\ workerInputs' = [workerInputs EXCEPT ![dist.closeIdx] = Close(@)]
            /\ dist' = [dist EXCEPT !.closeIdx = @ + 1,
                                    !.closed = Append(@, dist.closeIdx)]
    /\ UNCHANGED <<items, workersArg, process, src, input, capacity, laneCap, workers, pcMain,
                   processCalls, workerOutputs, output, lanes, merge, result,
                   consumerDone>>
    /\ UNCHANGED <<cmdVars, stageVars>>

\* The lane stages a caller passes as process: "map" is makeProcessor(fn)
\* of the tests, "filter" a stage that ranges like ChanFilter, "sum" the
\* batchProcessor of TestOrderedParallelizeChan_CustomChannelProcessor.
LaneStages == {"map", "filter", "sum"}

\* The lane l after its stage has received x: at a send of fn(x); at a send
\* of x or, x not passing the filter, back at its range; x added to its sum.
LaneGot(l, x) ==
    LET g == [l EXCEPT !.got = Append(@, x)] IN
    CASE process = "map" -> [g EXCEPT !.pc = "send", !.item = Process(x)]
      [] process = "filter" ->
           IF Filter(x) THEN [g EXCEPT !.pc = "send", !.item = x] ELSE g
      [] process = "sum" -> [g EXCEPT !.sum = @ + x, !.count = @ + 1]

\* The lane l when its range ends: if count > 0 { out <- sum } of the
\* batching stage, else the deferred close(out).
LaneEnd(l) ==
    IF process = "sum" /\ l.count > 0
    THEN [l EXCEPT !.pc = "send", !.item = l.sum]
    ELSE [l EXCEPT !.pc = "close"]

\* The lane l after its send went through: the next turn of its range, or
\* for the batching stage the deferred close(out).
LaneSent(l) ==
    [l EXCEPT !.pc = IF process = "sum" THEN "close" ELSE "range",
              !.out = Append(@, l.item)]

\* The lane stage up to its send: for x := range in { ... }, and close(out).
LaneRecv(i) ==
    /\ lanes[i].pc \in {"range", "close"}
    /\ IF lanes[i].pc = "close"
       THEN /\ lanes' = [lanes EXCEPT ![i].pc = "done"]
            /\ workerOutputs' = [workerOutputs EXCEPT ![i] = Close(@)]
            /\ UNCHANGED <<dist, workerInputs>>
       ELSE \/ /\ workerInputs[i].buf # <<>>
               /\ lanes' = [lanes EXCEPT ![i] =
                      LaneGot(@, Head(workerInputs[i].buf))]
               /\ workerInputs' = [workerInputs EXCEPT ![i] = Take(@)]
               /\ UNCHANGED <<dist, workerOutputs>>
            \/ /\ capacity = 0
               /\ dist.pc = "send" /\ DistLane(dist.index, workers) = i
               /\ lanes' = [lanes EXCEPT ![i] = LaneGot(@, dist.item)]
               /\ dist' = DistSent(dist, i)
               /\ UNCHANGED <<workerInputs, workerOutputs>>
            \/ /\ Drained(workerInputs[i])
               /\ lanes' = [lanes EXCEPT ![i] = LaneEnd(@)]
               /\ UNCHANGED <<dist, workerInputs, workerOutputs>>
    /\ UNCHANGED <<items, workersArg, process, src, input, capacity, laneCap, workers, pcMain,
                   processCalls, output, merge, result, consumerDone>>
    /\ UNCHANGED <<cmdVars, stageVars>>

\* out <- v   (buffered lane output)
LaneSend(i) ==
    /\ lanes[i].pc = "send"
    /\ Len(workerOutputs[i].buf) < laneCap
    /\ workerOutputs' = [workerOutputs EXCEPT ![i] = Put(@, lanes[i].item)]
    /\ lanes' = [lanes EXCEPT ![i] = LaneSent(@)]
    /\ UNCHANGED <<items, workersArg, process, src, input, capacity, laneCap, workers, pcMain,
                   processCalls, workerInputs, output, dist, merge, result,
                   consumerDone>>
    /\ UNCHANGED <<cmdVars, stageVars>>

\* The merge task m with the value v it received from lane w.
MergeGot(m, w, v) == [m EXCEPT !.pc = "send", !.val = v, !.from = w]

RetireKeepCount(m, w) ==
    [m EXCEPT !.nilled[w] = TRUE, !.index = @ + 1, !.retired = Append(@, w)]
\* workerOutputs[workerIdx] = nil; activeCount--; and the index++ of the turn
Retire(m, w) ==
    [m EXCEPT !.nilled[w] = TRUE, !.activeCount = @ - 1, !.index = @ + 1,
              !.retired = Append(@, w)]

\* One turn of: for activeCount > 0 { ... }, up to a send on output.
MergeStep ==
    /\ merge.pc = "loop"
    /\ LET w == MergeLane(merge.index, workers) IN
       \/ /\ merge.activeCount <= 0
          /\ merge' = [merge EXCEPT !.pc = "done", !.closes = @ + 1]
          /\ output' = Close(output)
          /\ UNCHANGED <<workerOutputs, lanes>>
       \/ /\ merge.activeCount > 0
          /\ merge.nilled[w]
          /\ merge' = [merge EXCEPT !.index = @ + 1]
          /\ UNCHANGED <<workerOutputs, lanes, output>>
       \/ /\ merge.activeCount > 0
          /\ ~merge.nilled[w]
          /\ workerOutputs[w].buf # <<>>
          /\ merge' = MergeGot(merge, w, Head(workerOutputs[w].buf))
          /\ workerOutputs' = [workerOutputs EXCEPT ![w] = Take(@)]
          /\ UNCHANGED <<lanes, output>>
       \/ /\ merge.activeCount > 0
          /\ ~merge.nilled[w]
          /\ laneCap = 0 /\ lanes[w].pc = "send"
          /\ merge' = MergeGot(merge, w, lanes[w].item)
          /\ lanes' = [lanes EXCEPT ![w] = LaneSent(@)]
          /\ UNCHANGED <<workerOutputs, output>>
       \/ /\ merge.activeCount > 0
          /\ ~merge.nilled[w]
          /\ Drained(workerOutputs[w])
          /\ merge' = Retire(merge, w)
          /\ UNCHANGED <<workerOutputs, lanes, output>>
    /\ UNCHANGED <<items, workersArg, process, src, input, capacity, laneCap, workers, pcMain,
                   processCalls, workerInputs, dist, result, consumerDone>>
    /\ UNCHANGED <<cmdVars, stageVars>>

\* output <- val; index++   (buffered result channel)
MergeSend ==
    /\ merge.pc = "send"
    /\ Len(output.buf) < capacity
    /\ output' = Put(output, merge.val)
    /\ merge' = [merge EXCEPT !.pc = "loop", !.index = @ + 1]
    /\ UNCHANGED <<items, workersArg, process, src, input, capacity, laneCap, workers, pcMain,
                   processCalls, workerInputs, workerOutputs, dist, lanes,
                   result, consumerDone>>
    /\ UNCHANGED <<cmdVars, stageVars>>

\* The consumer: for v := range output { result = append(result, v) }
ConsumerRecv ==
    /\ pcMain = "returned" /\ ~output.isNil /\ ~consumerDone
    /\ \/ /\ output.buf # <<>>
          /\ result' = Append(result, Head(output.buf))
          /\ output' = Take(output)
          /\ UNCHANGED <<merge, consumerDone>>
       \/ /\ capacity = 0 /\ merge.pc = "send"
          /\ result' = Append(result, merge.val)
          /\ merge' = [merge EXCEPT !.pc = "loop", !.index = @ + 1]
          /\ UNCHANGED <<output, consumerDone>>
       \/ /\ Drained(output)
          /\ consumerDone' = TRUE
          /\ UNCHANGED <<result, output, merge>>
    /\ UNCHANGED <<items, workersArg, process, src, input, capacity, laneCap, workers, pcMain,
                   processCalls, workerInputs, workerOutputs, dist, lanes>>
    /\ UNCHANGED <<cmdVars, stageVars>>

Lanes == DOMAIN lanes

NextChan ==
    \/ ProducerSend
    \/ ProducerClose
    \/ CallNil
    \/ Call
    \/ DistRecv
    \/ DistSend
    \/ DistClose
    \/ \E i \in Lanes : LaneRecv(i)
    \/ \E i \in Lanes : LaneSend(i)
    \/ MergeStep
    \/ MergeSend
    \/ ConsumerRecv

(***************************************************************************)
(* Part III: ChanProcessor and ChanFilter (chan.go).                       *)
(*                                                                         *)
(* One call of either function, with the producer feeding its input and    *)
(* the consumer ranging over its output, all held in the record stage.     *)
(***************************************************************************)
\* The processor of the tests: the item doubled.
Processor(x) == x * 2

\* The sequences over S of length at most n.
SeqsUpTo(S, n) == UNION {[1..k -> S] : k \in 0..n}

StageValues == 1..3

\* Neither function has been called.
NoStage ==
    [kind |-> "none", items |-> <<>>, src |-> <<>>, input |-> NilChan,
     capacity |-> 0, pcMain |-> "ready", output |-> NilChan, outCap |-> 0,
     pc |-> "idle", item |-> 0, result |-> <<>>, consumerDone |-> FALSE]

IdleStage == stage = NoStage

\* A caller about to call ChanProcessor or ChanFilter on an input channel
\* (nil, or of capacity 0..MaxCap) that a producer will feed and close.
InitStage ==
    \E kind \in {"processor", "filter"}, its \in SeqsUpTo(StageValues, MaxItems),
       in \in {NilChan, MakeChan}, c \in 0..MaxCap :
        stage = [NoStage EXCEPT !.kind = kind, !.items = its, !.src = its,
                                !.input = in,
                                !.capacity = IF in.isNil THEN 0 ELSE c]

\* input <- v, by the producer (buffered input)
StageProducerSend ==
    /\ ~stage.input.isNil /\ ~stage.input.closed
    /\ stage.src # <<>>
    /\ Len(stage.input.buf) < stage.capacity
    /\ stage' = [stage EXCEPT !.input = Put(@, Head(stage.src)),
                              !.src = Tail(@)]
    /\ UNCHANGED <<chanVars, cmdVars>>

\* close(input), by the producer
StageProducerClose ==
    /\ ~stage.input.isNil /\ ~stage.input.closed
    /\ stage.src = <<>>
    /\ stage' = [stage EXCEPT !.input = Close(@)]
    /\ UNCHANGED <<chanVars, cmdVars>>

OutputCapZero(st) == 0
\* cap(input) in output := make(chan Out, cap(input))
OutputCap(st) == st.capacity

\* The body of ChanProcessor and of ChanFilter up to the return.
StageCall(kind) ==
    /\ stage.kind = kind
    /\ stage.pcMain = "ready"
    /\ IF stage.input.isNil
       THEN stage' = [stage EXCEPT !.pcMain = "returned", !.output = NilChan]
       ELSE stage' = [stage EXCEPT !.pcMain = "returned", !.output = MakeChan,
                                   !.outCap = OutputCap(stage),
                                   !.pc = "range"]
    /\ UNCHANGED <<chanVars, cmdVars>>

ChanProcessor == StageCall("processor")

ChanFilter == StageCall("filter")

EmitsAll(kind, x) == TRUE
\* Whether the goroutine sends something for the item x it received.
Emits(kind, x) == kind = "processor" \/ Filter(x)

EmittedUnchanged(kind, x) == x
\* What the goroutine sends for x: processor(item), or the item itself.
Emitted(kind, x) == IF kind = "processor" THEN Processor(x) ELSE x

\* The goroutine after receiving x.
StageGot(st, x) ==
    IF Emits(st.kind, x)
    THEN [st EXCEPT !.pc = "send", !.item = Emitted(st.kind, x)]
    ELSE st

\* for item := range input, and the deferred close(output) at its end
StageRecv ==
    /\ stage.pc = "range"
    /\ \/ /\ stage.input.buf # <<>>
          /\ stage' = StageGot([stage EXCEPT !.input = Take(@)],
                               Head(stage.input.buf))
       \/ /\ stage.capacity = 0 /\ ~stage.input.closed /\ stage.src # <<>>
          /\ stage' = StageGot([stage EXCEPT !.src = Tail(@)], Head(stage.src))
       \/ /\ Drained(stage.input)
          /\ stage' = [stage EXCEPT !.pc = "done", !.output = Close(@)]
    /\ UNCHANGED <<chanVars, cmdVars>>

\* output <- processor(item), output <- item   (buffered output)
StageSend ==
    /\ stage.pc = "send"
    /\ Len(stage.output.buf) < stage.outCap
    /\ stage' = [stage EXCEPT !.output = Put(@, stage.item), !.pc = "range"]
    /\ UNCHANGED <<chanVars, cmdVars>>

\* The consumer: for v := range output { result = append(result, v) }
StageConsumerRecv ==
    /\ stage.pcMain = "returned" /\ ~stage.output.isNil /\ ~stage.consumerDone
    /\ \/ /\ stage.output.buf # <<>>
          /\ stage' = [stage EXCEPT !.result = Append(@, Head(stage.output.buf)),
                                    !.output = Take(@)]
       \/ /\ stage.outCap = 0 /\ stage.pc = "send"
          /\ stage' = [stage EXCEPT !.result = Append(@, stage.item),
                                    !.pc = "range"]
       \/ /\ Drained(stage.output)
          /\ stage' = [stage EXCEPT !.consumerDone = TRUE]
    /\ UNCHANGED <<chanVars, cmdVars>>

NextStage ==
    \/ StageProducerSend
    \/ StageProducerClose
    \/ ChanProcessor
    \/ ChanFilter
    \/ StageRecv
    \/ StageSend
    \/ StageConsumerRecv

(***************************************************************************)
(* Part II: Command pipelines (command.go).                                *)
(*                                                                         *)
(* Texts are sequences of integer tokens: 0 is the text of an explicit     *)
(* input source, -1 what the terminal supplies, and a stage that succeeds  *)
(* on stdin x writes x followed by its own address.                        *)
(***************************************************************************)
MaxCmds == 3
MaxFails == 2
MaxRetry == 1
MaxTokens == 2
MaxSettings == 2
MaxLazyCmds == 2
MaxBackoffCmds == 2
MaxBackoffRetry == 2
MaxFnCmds == 2
MaxSudoCmds == 2
MaxSharedCmds == 3
MaxLateCmds == 2
MaxLateSettings == 2
MaxExpiryCmds == 2

\* error values; Nil is the nil error
Nil == [kind |-> "nil", status |-> 0, cmd |-> 0]
ExitError(c, s) == [kind |-> "exit", status |-> s, cmd |-> c]
StartError(c) == [kind |-> "start", status |-> 0, cmd |-> c]
FnError(c) == [kind |-> "fn", status |-> 0, cmd |-> c]
CtxError(c) == [kind |-> "ctx", status |-> 0, cmd |-> c]
\* the failure of a Read of the stage's input source
ReadError(c) == [kind |-> "read", status |-> 0, cmd |-> c]
\* the failure of the helper command sudo -v
AuthError == [kind |-> "exit", status |-> 1, cmd |-> 0]

\* What a stage executes.  A program "flaky" exits non-zero on its first
\* `fails` runs (with the run number as status) and then succeeds; a program
\* "missing" cannot be started.  A function fails on its first `fails` calls.
NoProg == [name |-> "", fails |-> 0]
Prog(f) == [name |-> "flaky", fails |-> f]
Missing == [name |-> "missing", fails |-> 0]
NoFn == [isNil |-> TRUE, fails |-> 0]
Fn(f) == [isNil |-> FALSE, fails |-> f]

Programs == {Prog(f) : f \in 0..MaxFails} \cup {Missing}
Functions == {Fn(f) : f \in 0..MaxFails}

\* c.input: nil, or a reader with the text left to read; broken: its Read
\* returns a failure instead of text.
NoInput == [isNil |-> TRUE, data |-> <<>>, broken |-> FALSE]
StringReader == [isNil |-> FALSE, data |-> <<0>>, broken |-> FALSE]
BrokenReader == [isNil |-> FALSE, data |-> <<>>, broken |-> TRUE]
NilEnv == [isNil |-> TRUE, m |-> <<>>]

\* &Command{}: the zero value of every field
ZeroCommand ==
    [previous |-> 0, cmd |-> NoProg, cmdFn |-> NoFn,
     interactive |-> FALSE, input |-> NoInput, useSudo |-> FALSE,
     executed |-> FALSE, stdout |-> <<>>, stderr |-> <<>>, err |-> Nil,
     ctx |-> 0, dir |-> "", env |-> NilEnv, clearEnv |-> FALSE,
     exitCode |-> 0, retryCount |-> 0, retryDelay |-> 0]

\* What has been observed of a stage: the runs of its command or function,
\* its attempts (executeOnce calls) with what each got from the upstream
\* stage, what its accessors returned, what String() returned, the sleeps
\* between attempts, the elevation exchanges.
NoHist == [runs |-> <<>>, attempts |-> <<>>, rets |-> {}, rendered |-> {},
           sleeps |-> 0, sudo |-> <<>>, events |-> <<>>]

Addrs == DOMAIN cmds

InitCmd ==
    /\ cmds = <<>>
    /\ stack = <<>>
    /\ hist = <<>>
    /\ tokens = <<>>

\* No execute() is running: the caller is between two calls of the API.
Idle == stack = <<>>

Alloc(cm) ==
    /\ Idle
    /\ Len(cmds) < MaxCmds
    /\ cmds' = Append(cmds, cm)
    /\ hist' = Append(hist, NoHist)
    /\ UNCHANGED <<stack, tokens>>
    /\ UNCHANGED <<chanVars, stageVars>>

ConfigureResets(c, cm) ==
    /\ Idle
    /\ c \in Addrs
    /\ cmds' = [cmds EXCEPT ![c] = [cm EXCEPT !.executed = FALSE]]
    /\ UNCHANGED <<stack, hist, tokens>>
    /\ UNCHANGED <<chanVars, stageVars>>
\* A configuration method: it assigns fields of its receiver and returns it.
Configure(c, cm) ==
    /\ Idle
    /\ c \in Addrs
    /\ cmds' = [cmds EXCEPT ![c] = cm]
    /\ UNCHANGED <<stack, hist, tokens>>
    /\ UNCHANGED <<chanVars, stageVars>>

\* Cmd(cmd, args...)
Cmd(prog) == Alloc([ZeroCommand EXCEPT !.cmd = prog])

\* CmdFn(fn)
CmdFn(fn) == Alloc([ZeroCommand EXCEPT !.cmdFn = fn])

PipeEager(c, prog) ==
    /\ c \in Addrs
    /\ Idle
    /\ Len(cmds) < MaxCmds
    /\ cmds' = Append([cmds EXCEPT ![c].executed = TRUE],
                      [ZeroCommand EXCEPT !.cmd = prog, !.previous = c])
    /\ hist' = Append(hist, NoHist)
    /\ UNCHANGED <<stack, tokens>>
    /\ UNCHANGED <<chanVars, stageVars>>
\* c.Pipe(cmd, args...)
Pipe(c, prog) ==
    /\ c \in Addrs
    /\ Alloc([ZeroCommand EXCEPT !.cmd = prog, !.previous = c])

\* c.PipeFn(fn)
PipeFn(c, fn) ==
    /\ c \in Addrs
    /\ Alloc([ZeroCommand EXCEPT !.cmdFn = fn, !.previous = c])

Interactive(c) == Configure(c, [cmds[c] EXCEPT !.interactive = TRUE])

\* c.Input(s) and c.InputReader(r): a fresh reader holding the text <<0>>
Input(c) == Configure(c, [cmds[c] EXCEPT !.input = StringReader])

InputReader(c) == Configure(c, [cmds[c] EXCEPT !.input = StringReader])

\* c.InputReader(r) with a reader r whose Read fails
InputBrokenReader(c) == Configure(c, [cmds[c] EXCEPT !.input = BrokenReader])

Sudo(c) == Configure(c, [cmds[c] EXCEPT !.useSudo = TRUE])

Dir(c, path) == Configure(c, [cmds[c] EXCEPT !.dir = path])

MapSet(m, k, v) == [x \in (DOMAIN m) \cup {k} |-> IF x = k THEN v ELSE m[x]]
MapMerge(m, n) == [x \in (DOMAIN m) \cup (DOMAIN n) |-> IF x \in DOMAIN n THEN n[x] ELSE m[x]]

Env(c, key, value) ==
    Configure(c, [cmds[c] EXCEPT !.env = [isNil |-> FALSE, m |-> MapSet(@.m, key, value)]])

EnvMap(c, env) ==
    Configure(c, [cmds[c] EXCEPT !.env = [isNil |-> FALSE, m |-> MapMerge(@.m, env)]])

ClearEnv(c) == Configure(c, [cmds[c] EXCEPT !.clearEnv = TRUE])

Retry(c, attempts) == Configure(c, [cmds[c] EXCEPT !.retryCount = attempts])

RetryWithBackoff(c, attempts, delay) ==
    Configure(c, [cmds[c] EXCEPT !.retryCount = attempts, !.retryDelay = delay])

\* Sudo(cmd, args...): Cmd(cmd, args...).Sudo()
SudoCmd(prog) == Alloc([ZeroCommand EXCEPT !.cmd = prog, !.useSudo = TRUE])

\* The words of c.String(): "<function>" for a stage without a command,
\* else the command, after "sudo" if the stage is elevated.
Rendering(cm) ==
    IF cm.cmd.name = "" THEN <<"<function>">>
    ELSE (IF cm.useSudo THEN <<"sudo">> ELSE <<>>) \o <<cm.cmd.name>>

\* c.String()
String(c) ==
    /\ Idle
    /\ c \in Addrs
    /\ hist' = [hist EXCEPT ![c].rendered = @ \cup {Rendering(cmds[c])}]
    /\ UNCHANGED <<cmds, stack, tokens>>
    /\ UNCHANGED <<chanVars, stageVars>>

\* A context: who holds its cancel function, whether cancel was invoked,
\* whether its deadline has passed.
NewToken(kind) == [kind |-> kind, released |-> FALSE, expired |-> FALSE]

SetCtx(c, kind) ==
    /\ Idle
    /\ c \in Addrs
    /\ Len(tokens) < MaxTokens
    /\ tokens' = Append(tokens, NewToken(kind))
    /\ cmds' = [cmds EXCEPT ![c].ctx = Len(tokens) + 1]
    /\ UNCHANGED <<stack, hist>>
    /\ UNCHANGED <<chanVars, stageVars>>

\* c.WithContext(ctx): ctx and its cancel function belong to the caller
WithContext(c) == SetCtx(c, "caller")

\* c.WithTimeout(d): the cancel function is dropped (_ = cancel)
WithTimeout(c) == SetCtx(c, "timeout")

\* c.WithDeadline(t): the cancel function is dropped (_ = cancel)
WithDeadline(c) == SetCtx(c, "deadline")

\* The caller invokes the cancel function it kept for a WithContext context.
CallerCancel(t) ==
    /\ t \in DOMAIN tokens
    /\ tokens[t].kind = "caller"
    /\ ~tokens[t].released
    /\ tokens' = [tokens EXCEPT ![t].released = TRUE]
    /\ UNCHANGED <<cmds, stack, hist>>
    /\ UNCHANGED <<chanVars, stageVars>>

\* The deadline of a context passes.
Expire(t) ==
    /\ t \in DOMAIN tokens
    /\ ~tokens[t].expired
    /\ tokens' = [tokens EXCEPT ![t].expired = TRUE]
    /\ UNCHANGED <<cmds, stack, hist>>
    /\ UNCHANGED <<chanVars, stageVars>>

CtxDone(t) == t # 0 /\ (tokens[t].released \/ tokens[t].expired)

(***************************************************************************)
(* Execution: execute() and executeOnce().                                 *)
(***************************************************************************)
Bottom == stack[1]
\* The execute() in progress: the innermost of the nested calls.
Top == stack[Len(stack)]

OnStack(c) == \E i \in DOMAIN stack : stack[i].c = c

\* execute() has been called on c and has returned.
Finished(c) == c \in Addrs /\ cmds[c].executed /\ ~OnStack(c)

\* What the accessors read: c.stdout, c.stderr, c.err, c.exitCode.
Result(cm) == [stdout |-> cm.stdout, stderr |-> cm.stderr, err |-> cm.err,
               exitCode |-> cm.exitCode]

NeverExecuted(cm) == FALSE
\* if c.executed { return c }
AlreadyExecuted(cm) == cm.executed

MaxAttemptsNoPlusOne(retryCount) == IF retryCount < 1 THEN 1 ELSE retryCount
\* maxAttempts := c.retryCount + 1; if maxAttempts < 1 { maxAttempts = 1 }
MaxAttempts(retryCount) == IF retryCount + 1 < 1 THEN 1 ELSE retryCount + 1

Frame(c) == [c |-> c, attempt |-> 0,
             maxAttempts |-> MaxAttempts(cmds[c].retryCount), pc |-> "loop"]

\* The environment of this process, os.Environ(), as KEY=value entries.
Environ == << <<"A", "0">>, <<"HOME", "h">> >>

\* The set of orders in which a range over a map with key set S may run.
Orders(S) == {s \in [1..Cardinality(S) -> S] : \A i, j \in DOMAIN s : s[i] = s[j] => i = j}

BuildEnvAlwaysInherit(cm, order) ==
    IF cm.env.isNil
    THEN [isNil |-> ~cm.clearEnv, list |-> <<>>]
    ELSE [isNil |-> FALSE,
          list |-> Environ \o [i \in 1..Len(order) |-> <<order[i], cm.env.m[order[i]]>>]]
\* command.Env as executeOnce assembles it; isNil: the field is left nil.
BuildEnv(cm, order) ==
    LET cleared == [isNil |-> ~cm.clearEnv, list |-> <<>>]
        base == IF ~cm.clearEnv THEN Environ ELSE cleared.list
    IN IF cm.env.isNil
       THEN cleared
       ELSE [isNil |-> FALSE,
             list |-> base \o [i \in 1..Len(order) |-> <<order[i], cm.env.m[order[i]]>>]]

\* The variables a list of KEY=value entries gives the child: for a key
\* set more than once the last entry counts (os/exec).
EnvAsMap(list) ==
    LET keys == {list[i][1] : i \in DOMAIN list}
        last(k) == CHOOSE i \in DOMAIN list :
                     /\ list[i][1] = k
                     /\ \A j \in DOMAIN list : list[j][1] = k => j <= i
    IN [k \in keys |-> list[last(k)][2]]

\* The environment the child process gets: a nil command.Env inherits.
ChildEnv(e) == IF e.isNil THEN EnvAsMap(Environ) ELSE EnvAsMap(e.list)

ProcStdinExplicitFirst(cm, prevOut) ==
    IF ~cm.input.isNil THEN [src |-> "input", data |-> cm.input.data]
    ELSE IF cm.previous # 0 THEN [src |-> "previous", data |-> prevOut]
    ELSE IF cm.interactive THEN [src |-> "terminal", data |-> <<-1>>]
    ELSE [src |-> "empty", data |-> <<>>]
\* command.Stdin of a process stage: set from c.input, else from os.Stdin
\* when interactive, and then overwritten with the upstream output when
\* there is an upstream stage.
ProcStdin(cm, prevOut) ==
    LET first == IF ~cm.input.isNil THEN [src |-> "input", data |-> cm.input.data]
                 ELSE IF cm.interactive THEN [src |-> "terminal", data |-> <<-1>>]
                 ELSE [src |-> "empty", data |-> <<>>]
    IN IF cm.previous # 0 THEN [src |-> "previous", data |-> prevOut] ELSE first

FnStdinInputFirst(cm, prevOut) ==
    IF ~cm.input.isNil THEN [src |-> "input", data |-> cm.input.data]
    ELSE IF cm.previous # 0 THEN [src |-> "previous", data |-> prevOut]
    ELSE [src |-> "empty", data |-> <<>>]
\* stdin of a function stage: the upstream output, else the whole content
\* of c.input, else the empty string.
FnStdin(cm, prevOut) ==
    IF cm.previous # 0 THEN [src |-> "previous", data |-> prevOut]
    ELSE IF ~cm.input.isNil THEN [src |-> "input", data |-> cm.input.data]
    ELSE [src |-> "empty", data |-> <<>>]

\* _, c.err = io.Copy(buf, c.input) fails: the stdin comes from c.input and
\* its Read fails.
ReadFails(cm, stdin) == stdin.src = "input" /\ cm.input.broken

\* A reader that was handed over as stdin has been read to its end.
DrainInput(cm, stdin) ==
    IF stdin.src = "input" THEN [cm.input EXCEPT !.data = <<>>] ELSE cm.input

NeverFailed(prevErr) == FALSE
\* if err != nil { c.err = err; return }
UpstreamFailed(prevErr) == prevErr # Nil

\* command.Run() of the k-th run of stage c: stdout, stderr and error.
RunProcess(c, cm, k, stdin) ==
    IF cm.cmd.name = "missing"
    THEN [stdout |-> <<>>, stderr |-> <<>>, err |-> StartError(c)]
    ELSE IF k <= cm.cmd.fails
    THEN [stdout |-> <<>>, stderr |-> <<c>>, err |-> ExitError(c, k)]
    ELSE [stdout |-> Append(stdin.data, c), stderr |-> <<>>, err |-> Nil]

\* c.cmdFn(stdin) at its k-th call.
CallFn(c, cm, k, stdin) ==
    IF k <= cm.cmdFn.fails
    THEN [stdout |-> <<>>, stderr |-> <<c>>, err |-> FnError(c)]
    ELSE [stdout |-> Append(stdin.data, c), stderr |-> <<>>, err |-> Nil]

ExitCodeKeepFirst(old, err) ==
    IF err.kind = "exit" /\ old = 0 THEN err.status ELSE old
\* if c.err != nil { if exitErr, ok := c.err.(*exec.ExitError); ok {
\*     c.exitCode = status.ExitStatus() } }
ExitCodeAfter(old, err) == IF err.kind = "exit" THEN err.status ELSE old

\* An accessor (Run, Stdout, Stderr, Error, ExitCode, StdoutErr, StderrErr,
\* StdoutStderr, StdoutTrimmed) on a stage that has executed: execute()
\* returns at once and the accessor reads the cached fields.
AccessCached(c) ==
    /\ Idle
    /\ c \in Addrs
    /\ AlreadyExecuted(cmds[c])
    /\ hist' = [hist EXCEPT ![c].rets = @ \cup {Result(cmds[c])}]
    /\ UNCHANGED <<cmds, stack, tokens>>
    /\ UNCHANGED <<chanVars, stageVars>>

\* An accessor called by a second goroutine while the execute() of the
\* first is in progress, on a stage whose executed flag the first has
\* already set: nothing orders the two goroutines, execute() returns at
\* once and the accessor reads the fields as they are.  (A second
\* goroutine that finds the flag not yet set is not modelled.)
AccessRacing(c) ==
    /\ stack # <<>>
    /\ c \in Addrs
    /\ AlreadyExecuted(cmds[c])
    /\ hist' = [hist EXCEPT ![c].rets = @ \cup {Result(cmds[c])}]
    /\ UNCHANGED <<cmds, stack, tokens>>
    /\ UNCHANGED <<chanVars, stageVars>>

\* An accessor on a stage that has not executed: execute() sets the flag
\* and enters the retry loop.
AccessFirst(c) ==
    /\ Idle
    /\ c \in Addrs
    /\ ~AlreadyExecuted(cmds[c])
    /\ cmds' = [cmds EXCEPT ![c].executed = TRUE]
    /\ stack' = <<Frame(c)>>
    /\ UNCHANGED <<hist, tokens>>
    /\ UNCHANGED <<chanVars, stageVars>>

\* What c.previous.StdoutErr() returned to the attempt of frame f, if the
\* attempt got as far as asking for it.
NotAsked == [asked |-> FALSE, stdout |-> <<>>, err |-> Nil]
Upstream(f) ==
    LET p == cmds[f.c].previous IN
    IF f.pc = "prev" /\ p # 0
    THEN [asked |-> TRUE, stdout |-> cmds[p].stdout, err |-> cmds[p].err]
    ELSE NotAsked

BreakNever(err) == FALSE
\* if c.err == nil { break }
BreakOnSuccess(err) == err = Nil

\* The end of one executeOnce() of the top frame, cm being the stage after
\* it and h its history: break or exhaust the loop and return, or go round.
EndAttempt(cm, h0) ==
    LET f == Top
        h == [h0 EXCEPT !.attempts = Append(@, [err |-> cm.err,
                                                upstream |-> Upstream(f)])]
    IN
    /\ cmds' = [cmds EXCEPT ![f.c] = cm]
    /\ IF BreakOnSuccess(cm.err) \/ f.attempt + 1 >= f.maxAttempts
       THEN /\ stack' = SubSeq(stack, 1, Len(stack) - 1)
            /\ hist' = [hist EXCEPT ![f.c] =
                   IF Len(stack) = 1
                   THEN [h EXCEPT !.rets = @ \cup {Result(cm)}]
                   ELSE h]
       ELSE /\ stack' = [stack EXCEPT ![Len(stack)] =
                            [@ EXCEPT !.attempt = @ + 1, !.pc = "loop"]]
            /\ hist' = [hist EXCEPT ![f.c] = h]

\* The elevation exchange of an attempt: "cached", sudo -n true succeeded;
\* "authenticated", it failed and sudo -v succeeded; "denied", both failed.
SudoOutcomes == {"cached", "authenticated", "denied"}

AuthNeverFails(o) == FALSE
\* if err := Cmd("sudo", "-v").Interactive().Error(); err != nil
AuthFailed(o) == o = "denied"

UseSudoIgnored(cm) == FALSE
\* if c.useSudo { ... }, in the part of executeOnce for process stages
UseSudo(cm) == cm.cmdFn.isNil /\ cm.useSudo

SleepBeforeEvery(attempt, retryDelay) == retryDelay > 0
\* if attempt > 0 && c.retryDelay > 0 { time.Sleep(c.retryDelay) }
SleepBefore(attempt, retryDelay) == attempt > 0 /\ retryDelay > 0

\* The head of one turn of the retry loop: the sleep before a retry, and
\* executeOnce() of a process stage up to the elevation exchange.
ExecAttempt ==
    /\ stack # <<>>
    /\ Top.pc = "loop"
    /\ LET f == Top
           c == f.c
           cm == cmds[c]
           slept == IF SleepBefore(f.attempt, cm.retryDelay)
                    THEN [hist[c] EXCEPT !.sleeps = @ + 1,
                                         !.events = @ \o <<"sleep", "attempt">>]
                    ELSE [hist[c] EXCEPT !.events = Append(@, "attempt")]
       IN IF UseSudo(cm)
          THEN \E o \in SudoOutcomes :
                 LET h == [slept EXCEPT !.sudo = Append(@, o)] IN
                 IF AuthFailed(o)
                 THEN EndAttempt([cm EXCEPT !.err = AuthError], h)
                 ELSE /\ stack' = [stack EXCEPT ![Len(stack)].pc = "prev"]
                      /\ hist' = [hist EXCEPT ![c] = h]
                      /\ cmds' = cmds
          ELSE /\ stack' = [stack EXCEPT ![Len(stack)].pc = "prev"]
               /\ hist' = [hist EXCEPT ![c] = slept]
               /\ cmds' = cmds
    /\ UNCHANGED tokens
    /\ UNCHANGED <<chanVars, stageVars>>

\* c.previous.StdoutErr() on an upstream stage that has not executed yet:
\* its execute() runs inside this one.
Demand ==
    /\ stack # <<>>
    /\ Top.pc = "prev"
    /\ LET p == cmds[Top.c].previous IN
        /\ p # 0
        /\ ~AlreadyExecuted(cmds[p])
        /\ cmds' = [cmds EXCEPT ![p].executed = TRUE]
        /\ stack' = Append(stack, Frame(p))
    /\ UNCHANGED <<hist, tokens>>
    /\ UNCHANGED <<chanVars, stageVars>>

PrevOutStderr(p) == IF p # 0 THEN cmds[p].stderr ELSE <<>>
\* prevOut of prevOut, err := c.previous.StdoutErr(): the upstream's
\* captured stdout.
PrevOut(p) == IF p # 0 THEN cmds[p].stdout ELSE <<>>

\* The rest of executeOnce() of a function stage.
WorkFn ==
    /\ stack # <<>>
    /\ Top.pc = "prev"
    /\ LET c == Top.c
           cm == cmds[c]
           p == cm.previous
       IN /\ ~cm.cmdFn.isNil
          /\ p # 0 => cmds[p].executed
          /\ IF p # 0 /\ UpstreamFailed(cmds[p].err)
             THEN EndAttempt([cm EXCEPT !.err = cmds[p].err], hist[c])
             ELSE LET stdin == FnStdin(cm, PrevOut(p))
                      k == Len(hist[c].runs) + 1
                      r == CallFn(c, cm, k, stdin)
                      run == [stdin |-> stdin, env |-> <<>>, elevated |-> FALSE,
                              ctx |-> 0, done |-> FALSE, ok |-> r.err = Nil]
                  IN IF ReadFails(cm, stdin)
                     THEN EndAttempt([cm EXCEPT !.err = ReadError(c)], hist[c])
                     ELSE EndAttempt([cm EXCEPT !.stdout = r.stdout,
                                                !.stderr = r.stderr,
                                                !.err = r.err,
                                                !.input = DrainInput(cm, stdin)],
                                     [hist[c] EXCEPT !.runs = Append(@, run)])
    /\ UNCHANGED tokens
    /\ UNCHANGED <<chanVars, stageVars>>

CapturesAlways(cm) == TRUE
\* if c.interactive { command.Stdout = os.Stdout ... } else { capture }
Captures(cm) == ~cm.interactive

OutcomesIgnoreCtx(c, cm, k, stdin) == {RunProcess(c, cm, k, stdin)}
\* What the process does when its context is done: it is not started, or
\* it is killed; otherwise what the program does, command.Run() reporting
\* the failure of copying its stdin when the process itself did not fail.
Outcomes(c, cm, k, stdin) ==
    IF CtxDone(cm.ctx)
    THEN {[stdout |-> <<>>, stderr |-> <<>>, err |-> CtxError(c)],
          [stdout |-> <<>>, stderr |-> <<>>, err |-> ExitError(c, -1)]}
    ELSE LET r == RunProcess(c, cm, k, stdin) IN
         IF ReadFails(cm, stdin) /\ r.err = Nil
         THEN {[r EXCEPT !.err = ReadError(c)]}
         ELSE {r}

\* The rest of executeOnce() of a process stage: working directory,
\* environment, stdin, upstream output, the run, the exit code.
WorkProc ==
    /\ stack # <<>>
    /\ Top.pc = "prev"
    /\ LET c == Top.c
           cm == cmds[c]
           p == cm.previous
       IN /\ cm.cmdFn.isNil
          /\ p # 0 => cmds[p].executed
          /\ IF p # 0 /\ UpstreamFailed(cmds[p].err)
             THEN EndAttempt([cm EXCEPT !.err = cmds[p].err], hist[c])
             ELSE \E order \in Orders(DOMAIN cm.env.m) :
                  LET stdin == ProcStdin(cm, PrevOut(p))
                      k == Len(hist[c].runs) + 1
                  IN \E r \in Outcomes(c, cm, k, stdin) :
                     LET run == [stdin |-> stdin,
                                 env |-> ChildEnv(BuildEnv(cm, order)),
                                 elevated |-> cm.useSudo,
                                 ctx |-> cm.ctx, done |-> CtxDone(cm.ctx),
                                 ok |-> r.err = Nil]
                         ran == [cm EXCEPT !.err = r.err,
                                           !.exitCode = ExitCodeAfter(@, r.err),
                                           !.input = DrainInput(cm, stdin)]
                     IN EndAttempt(IF Captures(cm)
                                   THEN [ran EXCEPT !.stdout = r.stdout,
                                                    !.stderr = r.stderr]
                                   ELSE ran,
                                   [hist[c] EXCEPT !.runs = Append(@, run)])
    /\ UNCHANGED tokens
    /\ UNCHANGED <<chanVars, stageVars>>

Exec == ExecAttempt \/ Demand \/ WorkFn \/ WorkProc

(***************************************************************************)
(* Specifications.                                                         *)
(***************************************************************************)
RetryArgs == {-1} \cup (0..MaxRetry)

IdleChan ==
    /\ items = <<>>
    /\ src = <<>>
    /\ input = NilChan
    /\ capacity = 0
    /\ laneCap = 0
    /\ workers = 1
    /\ workersArg = 1
    /\ process = "map"
    /\ pcMain = "ready"
    /\ processCalls = 0
    /\ workerInputs = <<>>
    /\ workerOutputs = <<>>
    /\ output = NilChan
    /\ dist = NoDist
    /\ lanes = <<>>
    /\ merge = NoMerge
    /\ result = <<>>
    /\ consumerDone = FALSE

\* One call of OrderedParallelizeChan with its producer and its consumer.
InitChanSpec == InitChan /\ InitCmd /\ IdleStage

SpecChan == InitChanSpec /\ [][NextChan]_vars

\* Every goroutine that can take a step eventually takes one.
FairSpecChan ==
    /\ SpecChan
    /\ WF_vars(ProducerSend \/ ProducerClose)
    /\ WF_vars(CallNil \/ Call)
    /\ WF_vars(DistRecv \/ DistSend \/ DistClose)
    /\ \A i \in 1..(MaxWorkers + 1) : WF_vars(i \in Lanes /\ (LaneRecv(i) \/ LaneSend(i)))
    /\ WF_vars(MergeStep \/ MergeSend)
    /\ WF_vars(ConsumerRecv)

\* One call of OrderedParallelizeChan on a non-nil input with at least one
\* lane and any of the lane stages, whose output channel is unbuffered or
\* has the capacity of its input (as ChanFilter's has).
InitLanes ==
    /\ \E n \in 0..MaxLaneItems : items = UpTo(n)
    /\ src = items
    /\ input = MakeChan
    /\ capacity \in 0..MaxCap
    /\ laneCap \in {0, capacity}
    /\ workers \in 1..MaxWorkers
    /\ workersArg = workers
    /\ process \in LaneStages
    /\ pcMain = "ready"
    /\ processCalls = 0
    /\ workerInputs = <<>>
    /\ workerOutputs = <<>>
    /\ output = NilChan
    /\ dist = NoDist
    /\ lanes = <<>>
    /\ merge = NoMerge
    /\ result = <<>>
    /\ consumerDone = FALSE

InitLanesSpec == InitLanes /\ InitCmd /\ IdleStage

NextLanes ==
    \/ ProducerSend
    \/ ProducerClose
    \/ Call
    \/ DistRecv
    \/ DistSend
    \/ DistClose
    \/ \E i \in Lanes : LaneRecv(i)
    \/ \E i \in Lanes : LaneSend(i)
    \/ MergeStep
    \/ MergeSend
    \/ ConsumerRecv

SpecLanes == InitLanesSpec /\ [][NextLanes]_vars

\* The same call with a producer that sends its items and never closes the
\* input channel: the closing loop of the distribution task is not reached.
NextNoClose ==
    \/ ProducerSend
    \/ Call
    \/ DistRecv
    \/ DistSend
    \/ \E i \in Lanes : LaneRecv(i)
    \/ \E i \in Lanes : LaneSend(i)
    \/ MergeStep
    \/ MergeSend
    \/ ConsumerRecv

SpecNoClose == InitLanesSpec /\ [][NextNoClose]_vars

\* The same call with a consumer that never receives from the result
\* channel.
NextNoConsumer ==
    \/ ProducerSend
    \/ ProducerClose
    \/ Call
    \/ DistRecv
    \/ DistSend
    \/ DistClose
    \/ \E i \in Lanes : LaneRecv(i)
    \/ \E i \in Lanes : LaneSend(i)
    \/ MergeStep
    \/ MergeSend

SpecNoConsumer == InitLanesSpec /\ [][NextNoConsumer]_vars

\* A caller that builds one pipeline stage by stage (Cmd or CmdFn, then Pipe
\* or PipeFn on the newest stage), sets retry counts on stages that have
\* not executed, and requests outputs of any stage at any time.
Newest == Len(cmds)

NextCmd ==
    \/ \E prog \in Programs : cmds = <<>> /\ Cmd(prog)
    \/ \E fn \in Functions : cmds = <<>> /\ CmdFn(fn)
    \/ \E prog \in Programs : Pipe(Newest, prog)
    \/ \E fn \in Functions : PipeFn(Newest, fn)
    \/ \E c \in Addrs, n \in RetryArgs : ~cmds[c].executed /\ Retry(c, n)
    \/ \E c \in Addrs : AccessCached(c)
    \/ \E c \in Addrs : AccessFirst(c)
    \/ ExecAttempt
    \/ Demand
    \/ WorkFn
    \/ WorkProc

\* No call of OrderedParallelizeChan, no Command yet.
InitCmdSpec == IdleChan /\ InitCmd /\ IdleStage

SpecCmd == InitCmdSpec /\ [][NextCmd]_vars

\* A caller that builds one pipeline of process and function stages, gives
\* stages an input source or the terminal, and requests outputs.
StdinPrograms == {Prog(0), Prog(1)}

NextStdin ==
    \/ \E prog \in StdinPrograms : cmds = <<>> /\ Cmd(prog)
    \/ cmds = <<>> /\ CmdFn(Fn(0))
    \/ \E prog \in StdinPrograms : Pipe(Newest, prog)
    \/ PipeFn(Newest, Fn(0))
    \/ \E c \in Addrs : ~cmds[c].executed /\ Input(c)
    \/ \E c \in Addrs : ~cmds[c].executed /\ InputReader(c)
    \/ \E c \in Addrs : ~cmds[c].executed /\ Interactive(c)
    \/ \E c \in Addrs : AccessCached(c)
    \/ \E c \in Addrs : AccessFirst(c)
    \/ ExecAttempt
    \/ Demand
    \/ WorkFn
    \/ WorkProc

SpecStdin == InitCmdSpec /\ [][NextStdin]_vars

\* A caller that builds a pipeline of processes, configures their
\* environment in any order of calls, and requests outputs.
EnvKeys == {"A", "B"}
EnvValues == {"1", "2"}
EnvMaps == {[k \in EnvKeys |-> IF k = "A" THEN "1" ELSE "2"], <<>>}

NextEnv ==
    \/ cmds = <<>> /\ Cmd(Prog(0))
    \/ Pipe(Newest, Prog(0))
    \/ \E c \in Addrs, k \in EnvKeys, v \in EnvValues : ~cmds[c].executed /\ Env(c, k, v)
    \/ \E c \in Addrs, m \in EnvMaps : ~cmds[c].executed /\ EnvMap(c, m)
    \/ \E c \in Addrs : ~cmds[c].executed /\ ClearEnv(c)
    \/ \E c \in Addrs : AccessCached(c)
    \/ \E c \in Addrs : AccessFirst(c)
    \/ ExecAttempt
    \/ Demand
    \/ WorkProc

SpecEnv == InitCmdSpec /\ [][NextEnv]_vars

\* A caller that builds a pipeline of processes, gives stages a context
\* (its own, or one made by WithTimeout or WithDeadline) and requests
\* outputs, while deadlines pass and the caller cancels its own contexts.
NextCtx ==
    \/ \E prog \in StdinPrograms : cmds = <<>> /\ Cmd(prog)
    \/ \E prog \in StdinPrograms : Pipe(Newest, prog)
    \/ \E c \in Addrs : ~cmds[c].executed /\ WithContext(c)
    \/ \E c \in Addrs : ~cmds[c].executed /\ WithTimeout(c)
    \/ \E c \in Addrs : ~cmds[c].executed /\ WithDeadline(c)
    \/ \E t \in DOMAIN tokens : CallerCancel(t)
    \/ \E t \in DOMAIN tokens : Expire(t)
    \/ \E c \in Addrs : AccessCached(c)
    \/ \E c \in Addrs : AccessFirst(c)
    \/ ExecAttempt
    \/ Demand
    \/ WorkProc

SpecCtx == InitCmdSpec /\ [][NextCtx]_vars

\* A caller that builds one pipeline of process and function stages, gives
\* stages an input source, the terminal or a retry, and requests outputs.
NextPipe ==
    \/ \E prog \in StdinPrograms : cmds = <<>> /\ Cmd(prog)
    \/ cmds = <<>> /\ CmdFn(Fn(0))
    \/ \E prog \in StdinPrograms : Pipe(Newest, prog)
    \/ PipeFn(Newest, Fn(0))
    \/ \E c \in Addrs : ~cmds[c].executed /\ Input(c)
    \/ \E c \in Addrs : ~cmds[c].executed /\ Interactive(c)
    \/ \E c \in Addrs : ~cmds[c].executed /\ Retry(c, 1)
    \/ \E c \in Addrs : AccessCached(c)
    \/ \E c \in Addrs : AccessFirst(c)
    \/ ExecAttempt
    \/ Demand
    \/ WorkFn
    \/ WorkProc

SpecPipe == InitCmdSpec /\ [][NextPipe]_vars

\* Two goroutines sharing one pipeline: the first builds it, sets retry
\* counts and requests outputs; the second requests outputs of stages
\* while a request of the first is in progress.
NextRace ==
    \/ \E prog \in StdinPrograms : cmds = <<>> /\ Cmd(prog)
    \/ cmds = <<>> /\ CmdFn(Fn(0))
    \/ \E prog \in StdinPrograms : Pipe(Newest, prog)
    \/ PipeFn(Newest, Fn(0))
    \/ \E c \in Addrs : ~cmds[c].executed /\ Retry(c, 1)
    \/ \E c \in Addrs : AccessCached(c)
    \/ \E c \in Addrs : AccessFirst(c)
    \/ \E c \in Addrs : AccessRacing(c)
    \/ ExecAttempt
    \/ Demand
    \/ WorkFn
    \/ WorkProc

SpecRace == InitCmdSpec /\ [][NextRace]_vars

\* A caller that builds one pipeline with every builder, makes every
\* configuration call on any stage that has not executed while fewer than
\* MaxSettings fields of the pipeline differ from their zero values,
\* renders stages with String() and requests outputs.
ConfigFields == {"interactive", "input", "useSudo", "ctx", "dir", "env",
                 "clearEnv", "retryCount", "retryDelay"}
Settings(cm) == Cardinality({f \in ConfigFields : cm[f] # ZeroCommand[f]})

RECURSIVE SumSettings(_)
SumSettings(s) == IF s = <<>> THEN 0 ELSE Settings(Head(s)) + SumSettings(Tail(s))

MaySet(c) == ~cmds[c].executed /\ SumSettings(cmds) < MaxSettings

NextLazy ==
    \/ cmds = <<>> /\ Cmd(Prog(0))
    \/ cmds = <<>> /\ CmdFn(Fn(0))
    \/ cmds = <<>> /\ SudoCmd(Prog(0))
    \/ Len(cmds) < MaxLazyCmds /\ Pipe(Newest, Prog(0))
    \/ Len(cmds) < MaxLazyCmds /\ PipeFn(Newest, Fn(0))
    \/ \E c \in Addrs : MaySet(c) /\ Sudo(c)
    \/ \E c \in Addrs : MaySet(c) /\ Interactive(c)
    \/ \E c \in Addrs : MaySet(c) /\ Input(c)
    \/ \E c \in Addrs : MaySet(c) /\ InputReader(c)
    \/ \E c \in Addrs : MaySet(c) /\ WithContext(c)
    \/ \E c \in Addrs : MaySet(c) /\ WithTimeout(c)
    \/ \E c \in Addrs : MaySet(c) /\ WithDeadline(c)
    \/ \E c \in Addrs : MaySet(c) /\ Dir(c, "/tmp")
    \/ \E c \in Addrs : MaySet(c) /\ Env(c, "A", "1")
    \/ \E c \in Addrs, m \in EnvMaps : MaySet(c) /\ EnvMap(c, m)
    \/ \E c \in Addrs : MaySet(c) /\ ClearEnv(c)
    \/ \E c \in Addrs : MaySet(c) /\ Retry(c, 1)
    \/ \E c \in Addrs : MaySet(c) /\ RetryWithBackoff(c, 1, 1)
    \/ \E c \in Addrs : String(c)
    \/ \E c \in Addrs : AccessCached(c)
    \/ \E c \in Addrs : AccessFirst(c)
    \/ ExecAttempt
    \/ Demand
    \/ WorkFn
    \/ WorkProc

SpecLazy == InitCmdSpec /\ [][NextLazy]_vars

\* A caller that builds a pipeline of up to MaxBackoffCmds stages, sets
\* retry counts and retry delays with RetryWithBackoff on stages that have
\* not executed, and requests outputs.
BackoffRetries == (-1)..MaxBackoffRetry
BackoffDelays == {-1, 0, 1}

NextBackoff ==
    \/ \E prog \in Programs : cmds = <<>> /\ Cmd(prog)
    \/ \E fn \in Functions : cmds = <<>> /\ CmdFn(fn)
    \/ \E prog \in Programs : Len(cmds) < MaxBackoffCmds /\ Pipe(Newest, prog)
    \/ \E fn \in Functions : Len(cmds) < MaxBackoffCmds /\ PipeFn(Newest, fn)
    \/ \E c \in Addrs, n \in BackoffRetries, d \in BackoffDelays :
          ~cmds[c].executed /\ RetryWithBackoff(c, n, d)
    \/ \E c \in Addrs : AccessCached(c)
    \/ \E c \in Addrs : AccessFirst(c)
    \/ ExecAttempt
    \/ Demand
    \/ WorkFn
    \/ WorkProc

SpecBackoff == InitCmdSpec /\ [][NextBackoff]_vars

\* A caller that builds a pipeline of up to MaxFnCmds stages whose
\* downstream stages are functions, gives stages a string input or a
\* reader that fails, sets retries and requests outputs.
NextFn ==
    \/ \E prog \in StdinPrograms : cmds = <<>> /\ Cmd(prog)
    \/ \E fn \in Functions : cmds = <<>> /\ CmdFn(fn)
    \/ \E fn \in Functions : Len(cmds) < MaxFnCmds /\ PipeFn(Newest, fn)
    \/ \E c \in Addrs : ~cmds[c].executed /\ Input(c)
    \/ \E c \in Addrs : ~cmds[c].executed /\ InputBrokenReader(c)
    \/ \E c \in Addrs : ~cmds[c].executed /\ Retry(c, 1)
    \/ \E c \in Addrs : AccessCached(c)
    \/ \E c \in Addrs : AccessFirst(c)
    \/ ExecAttempt
    \/ Demand
    \/ WorkFn
    \/ WorkProc

SpecFn == InitCmdSpec /\ [][NextFn]_vars

\* A caller that builds a pipeline of up to MaxSudoCmds stages, some of
\* them elevated (Sudo(cmd) or .Sudo()), sets retries and requests outputs.
NextSudo ==
    \/ \E prog \in Programs : cmds = <<>> /\ Cmd(prog)
    \/ \E prog \in Programs : cmds = <<>> /\ SudoCmd(prog)
    \/ cmds = <<>> /\ CmdFn(Fn(0))
    \/ \E prog \in Programs : Len(cmds) < MaxSudoCmds /\ Pipe(Newest, prog)
    \/ \E c \in Addrs : ~cmds[c].executed /\ Sudo(c)
    \/ \E c \in Addrs : ~cmds[c].executed /\ Retry(c, 1)
    \/ \E c \in Addrs : AccessCached(c)
    \/ \E c \in Addrs : AccessFirst(c)
    \/ ExecAttempt
    \/ Demand
    \/ WorkFn
    \/ WorkProc

SpecSudo == InitCmdSpec /\ [][NextSudo]_vars

\* A caller that goes on configuring stages that have executed: every
\* configuration call on an executed stage while fewer than
\* MaxLateSettings fields of the pipeline differ from their zero values,
\* contexts that end, and further requests.
Late(c) == cmds[c].executed /\ SumSettings(cmds) < MaxLateSettings

NextLate ==
    \/ \E prog \in Programs : cmds = <<>> /\ Cmd(prog)
    \/ \E prog \in StdinPrograms : Len(cmds) < MaxLateCmds /\ Pipe(Newest, prog)
    \/ Len(cmds) < MaxLateCmds /\ PipeFn(Newest, Fn(1))
    \/ \E c \in Addrs : ~cmds[c].executed /\ Retry(c, 1)
    \/ \E c \in Addrs : Late(c) /\ Sudo(c)
    \/ \E c \in Addrs : Late(c) /\ Interactive(c)
    \/ \E c \in Addrs : Late(c) /\ Input(c)
    \/ \E c \in Addrs : Late(c) /\ InputReader(c)
    \/ \E c \in Addrs : Late(c) /\ WithContext(c)
    \/ \E c \in Addrs : Late(c) /\ WithTimeout(c)
    \/ \E c \in Addrs : Late(c) /\ WithDeadline(c)
    \/ \E c \in Addrs : Late(c) /\ Dir(c, "/tmp")
    \/ \E c \in Addrs : Late(c) /\ Env(c, "A", "1")
    \/ \E c \in Addrs, m \in EnvMaps : Late(c) /\ EnvMap(c, m)
    \/ \E c \in Addrs : Late(c) /\ ClearEnv(c)
    \/ \E c \in Addrs : Late(c) /\ Retry(c, 1)
    \/ \E c \in Addrs : Late(c) /\ RetryWithBackoff(c, 1, 1)
    \/ \E t \in DOMAIN tokens : CallerCancel(t)
    \/ \E t \in DOMAIN tokens : Expire(t)
    \/ \E c \in Addrs : AccessCached(c)
    \/ \E c \in Addrs : AccessFirst(c)
    \/ ExecAttempt
    \/ Demand
    \/ WorkFn
    \/ WorkProc

SpecLate == InitCmdSpec /\ [][NextLate]_vars

\* Process pipelines with contexts and retries: the caller gives stages
\* a context, a timeout or a deadline and a retry count with a delay; a
\* context can be cancelled by the caller and a deadline can pass at any
\* moment, before, during or after an execution.
ExpiryRetries == 1..MaxBackoffRetry
ExpiryDelays == {0, 1}

NextExpiry ==
    \/ \E prog \in StdinPrograms : cmds = <<>> /\ Cmd(prog)
    \/ \E prog \in StdinPrograms : Len(cmds) < MaxExpiryCmds /\ Pipe(Newest, prog)
    \/ \E c \in Addrs : ~cmds[c].executed /\ cmds[c].ctx = 0 /\ WithContext(c)
    \/ \E c \in Addrs : ~cmds[c].executed /\ cmds[c].ctx = 0 /\ WithTimeout(c)
    \/ \E c \in Addrs : ~cmds[c].executed /\ cmds[c].ctx = 0 /\ WithDeadline(c)
    \/ \E c \in Addrs, n \in ExpiryRetries, d \in ExpiryDelays :
          ~cmds[c].executed /\ cmds[c].retryCount = 0 /\ RetryWithBackoff(c, n, d)
    \/ \E t \in DOMAIN tokens : CallerCancel(t)
    \/ \E t \in DOMAIN tokens : Expire(t)
    \/ \E c \in Addrs : AccessCached(c)
    \/ \E c \in Addrs : AccessFirst(c)
    \/ ExecAttempt
    \/ Demand
    \/ WorkProc

SpecExpiry == InitCmdSpec /\ [][NextExpiry]_vars

\* Pipelines that branch: Pipe and PipeFn on any existing stage, so that
\* two downstream stages can have the same upstream.
NextShared ==
    \/ \E prog \in Programs : cmds = <<>> /\ Cmd(prog)
    \/ \E c \in Addrs, prog \in StdinPrograms :
          Len(cmds) < MaxSharedCmds /\ Pipe(c, prog)
    \/ \E c \in Addrs : Len(cmds) < MaxSharedCmds /\ PipeFn(c, Fn(0))
    \/ \E c \in Addrs : ~cmds[c].executed /\ Retry(c, 1)
    \/ \E c \in Addrs : AccessCached(c)
    \/ \E c \in Addrs : AccessFirst(c)
    \/ ExecAttempt
    \/ Demand
    \/ WorkFn
    \/ WorkProc

SpecShared == InitCmdSpec /\ [][NextShared]_vars

\* One call of ChanProcessor or ChanFilter with its producer and consumer.
InitStageSpec == IdleChan /\ InitCmd /\ InitStage

SpecStage == InitStageSpec /\ [][NextStage]_vars

\* Every goroutine that can take a step eventually takes one.
FairSpecStage ==
    /\ SpecStage
    /\ WF_vars(StageProducerSend \/ StageProducerClose)
    /\ WF_vars(ChanProcessor \/ ChanFilter)
    /\ WF_vars(StageRecv \/ StageSend)
    /\ WF_vars(StageConsumerRecv)

Spec == SpecChan

(***************************************************************************)
(* Claims about OrderedParallelizeChan.                                    *)
(***************************************************************************)
RECURSIVE MapProcess(_)
MapProcess(s) == IF s = <<>> THEN <<>> ELSE <<Process(Head(s))>> \o MapProcess(Tail(s))

\* C1: the i-th item received from the result stream is process(i-th input
\* item), in every interleaving of producer, distribution, lanes and merge.
C1_OrderPreserved ==
    /\ Len(result) <= Len(items)
    /\ \A i \in 1..Len(result) : result[i] = Process(items[i])

\* C1 witness: with at least two lanes, more items than lanes were delivered
\* (the round robin wrapped around) and the stream was read to its end.
C1_Witness ==
    /\ consumerDone
    /\ workers >= 2
    /\ Len(result) > workers
    /\ result = MapProcess(items)

ChanTerminated ==
    /\ consumerDone
    /\ result = MapProcess(items)
    /\ dist.pc = "done"
    /\ merge.pc = "done"
    /\ output.closed

\* C6: with a non-nil input that the producer closes after its N items and
\* a consumer that keeps receiving, the result stream eventually delivers
\* exactly the N results and is closed, and both tasks terminate.
C6_Terminates == (~input.isNil) => <>[]ChanTerminated

\* C6 witness: a terminated run over an empty input and one over a full one.
C6_Witness == ChanTerminated /\ Len(items) = MaxItems /\ workers = 2

(***************************************************************************)
(* Claims about Command pipelines.                                         *)
(***************************************************************************)
\* s1 -> s2 -> s3 is a pipeline whose first stage is s1.
Pipeline3(s1, s2, s3) ==
    /\ cmds[s1].previous = 0
    /\ cmds[s2].previous = s1
    /\ cmds[s3].previous = s2

\* The stage has no upstream, or its upstream has succeeded.
UpstreamOk(c) ==
    \/ cmds[c].previous = 0
    \/ Finished(cmds[c].previous) /\ cmds[cmds[c].previous].err = Nil

\* The work of c fails its first Fails(c) attempts and then succeeds.
Flaky(c) == cmds[c].cmd.name = "flaky" \/ ~cmds[c].cmdFn.isNil
Fails(c) == IF cmds[c].cmdFn.isNil THEN cmds[c].cmd.fails ELSE cmds[c].cmdFn.fails

\* C2 as stated: every accessor call on a stage returns the same results,
\* and the stage's function or process has run exactly once.
C2_WorkExactlyOnce ==
    \A c \in Addrs :
        Finished(c) => Cardinality(hist[c].rets) <= 1 /\ Len(hist[c].runs) = 1

\* C2 amended: every accessor call on a stage returns the same results; the
\* stage's function or process runs only inside the first output request
\* (never again once execute() has returned, whatever is called next), and
\* it has run exactly once whenever its first run succeeded.
C2_Idempotent ==
    /\ [](\A c \in Addrs :
            /\ Cardinality(hist[c].rets) <= 1
            /\ (Finished(c) /\ hist[c].runs # <<>> /\ hist[c].runs[1].ok)
                  => Len(hist[c].runs) = 1)
    /\ [][\A c \in Addrs :
            Finished(c) => /\ hist'[c].runs = hist[c].runs
                           /\ Result(cmds'[c]) = Result(cmds[c])
                           /\ hist'[c].rets \subseteq {Result(cmds[c])}]_vars

\* C2 witness: a stage that was retried (two runs of its work) has returned
\* its results to two accessor calls; another one never ran its work.
C2_Witness ==
    \E c, d \in Addrs :
        /\ Finished(c) /\ Len(hist[c].runs) = 2
        /\ hist[c].rets = {Result(cmds[c])}
        /\ Finished(d) /\ hist[d].runs = <<>> /\ hist[d].rets # {}

\* C3: in a pipeline s1 -> s2 -> s3 whose first stage has failed, the
\* command or function of s2 and of s3 never runs, and the failure s2 and
\* s3 report is the (non-nil) failure of s1.
C3_FailFast ==
    \A s1, s2, s3 \in Addrs :
        (Pipeline3(s1, s2, s3) /\ Finished(s1) /\ cmds[s1].err # Nil)
        => /\ hist[s2].runs = <<>>
           /\ hist[s3].runs = <<>>
           /\ Finished(s2) => cmds[s2].err = cmds[s1].err
           /\ Finished(s3) => cmds[s3].err = cmds[s1].err /\ cmds[s3].err # Nil

\* C3 witness: the tail's output was requested, the first stage failed
\* after a retry, and the stages after it were configured to retry.
C3_Witness ==
    \E s1, s2, s3 \in Addrs :
        /\ Pipeline3(s1, s2, s3)
        /\ hist[s3].rets # {} /\ hist[s1].rets = {}
        /\ cmds[s1].err # Nil /\ Len(hist[s1].runs) = 2
        /\ cmds[s2].retryCount = 1 /\ cmds[s3].retryCount = 1

\* C4 as stated: a stage failing exactly F = N-1 times before succeeding
\* ends without error iff retryCount >= F, and a failure comes only after
\* retryCount+1 attempts.
C4_RetryConvergenceAsStated ==
    \A c \in Addrs :
        (Finished(c) /\ Flaky(c) /\ UpstreamOk(c))
        => LET R == cmds[c].retryCount IN
           /\ R >= Fails(c) => cmds[c].err = Nil
           /\ R < Fails(c) => cmds[c].err # Nil /\ Len(hist[c].runs) = R + 1

\* C4 amended: the same with a negative retry count counting as 0.
C4_RetryConvergence ==
    \A c \in Addrs :
        (Finished(c) /\ Flaky(c) /\ UpstreamOk(c))
        => LET R == IF cmds[c].retryCount < 0 THEN 0 ELSE cmds[c].retryCount IN
           /\ R >= Fails(c) => cmds[c].err = Nil /\ Len(hist[c].runs) = Fails(c) + 1
           /\ R < Fails(c) => cmds[c].err # Nil /\ Len(hist[c].runs) = R + 1

\* C4 witness: a stage with a negative retry count that succeeded at once
\* feeds one that failed only after its retry was used up.
C4_Witness ==
    \E c, d \in Addrs :
        /\ Finished(c) /\ cmds[c].retryCount = -1 /\ cmds[c].err = Nil
        /\ cmds[d].previous = c
        /\ Finished(d) /\ cmds[d].retryCount = 1 /\ Fails(d) = 2
        /\ cmds[d].err # Nil /\ Len(hist[d].runs) = 2

\* C7: a process stage that has executed without error has exit code 0.
C7_ExitZeroOnSuccess ==
    \A c \in Addrs :
        (Finished(c) /\ cmds[c].cmdFn.isNil /\ cmds[c].err = Nil)
        => cmds[c].exitCode = 0

\* C8 as stated: a stage whose Error() is a non-zero-exit failure with
\* status s has ExitCode() = s, downstream stages included.
C8_ExitCodeMatchesError ==
    \A c \in Addrs :
        (Finished(c) /\ cmds[c].err.kind = "exit")
        => cmds[c].exitCode = cmds[c].err.status

\* C8 amended: the stage whose own process exited non-zero with status s
\* has ExitCode() = s; a stage that reports the exit failure of another
\* stage has not run its process and has ExitCode() = 0.
C8_ExitCodeOfOwnProcess ==
    \A c \in Addrs :
        (Finished(c) /\ cmds[c].err.kind = "exit")
        => IF cmds[c].err.cmd = c
           THEN cmds[c].exitCode = cmds[c].err.status
           ELSE cmds[c].exitCode = 0 /\ hist[c].runs = <<>>

\* C8 witness: a process exited with status 2 on its second attempt and
\* the stage downstream of it reports that failure.
C8_Witness ==
    \E c, d \in Addrs :
        /\ Finished(c) /\ cmds[c].err = ExitError(c, 2) /\ cmds[c].exitCode = 2
        /\ cmds[d].previous = c
        /\ Finished(d) /\ cmds[d].err = ExitError(c, 2) /\ cmds[d].exitCode = 0

\* Where a process stage configured like cm takes its stdin from when the
\* upstream output comes first, then an explicit input source, then the
\* terminal of an interactive stage.
UpstreamFirst(cm) ==
    IF cm.previous # 0 THEN "previous"
    ELSE IF ~cm.input.isNil THEN "input"
    ELSE IF cm.interactive THEN "terminal"
    ELSE "empty"

\* The same with the explicit input source before the upstream output.
ExplicitFirst(cm) ==
    IF ~cm.input.isNil THEN "input"
    ELSE IF cm.previous # 0 THEN "previous"
    ELSE IF cm.interactive THEN "terminal"
    ELSE "empty"

Configured(cm) == IF cm.env.isNil THEN <<>> ELSE cm.env.m

\* The environment of the calling process.
Inherited == [k \in {"A", "HOME"} |-> IF k = "A" THEN "0" ELSE "h"]

\* C9: the child of a process stage with ClearEnv gets exactly the
\* variables configured with Env and EnvMap (none if there are none) and
\* nothing inherited; without ClearEnv it gets the inherited environment
\* overlaid with the configured variables.
C9_ChildEnvironment ==
    \A c \in Addrs :
        \A i \in DOMAIN hist[c].runs :
            hist[c].runs[i].env =
                IF cmds[c].clearEnv
                THEN Configured(cmds[c])
                ELSE MapMerge(Inherited, Configured(cmds[c]))

\* C9 witness: a stage with ClearEnv and {A: "1", B: "2"} has run with
\* exactly these two variables, one with ClearEnv alone with none, and
\* one without ClearEnv with the inherited A replaced.
C9_Witness ==
    \E c, d, e \in Addrs :
        /\ cmds[c].clearEnv /\ ~cmds[c].env.isNil
        /\ hist[c].runs # <<>>
        /\ hist[c].runs[1].env = [k \in {"A", "B"} |-> IF k = "A" THEN "1" ELSE "2"]
        /\ cmds[d].clearEnv /\ cmds[d].env.isNil
        /\ hist[d].runs # <<>>
        /\ DOMAIN hist[d].runs[1].env = {}
        /\ ~cmds[e].clearEnv
        /\ hist[e].runs # <<>>
        /\ hist[e].runs[1].env = [k \in {"A", "HOME"} |-> IF k = "A" THEN "2" ELSE "h"]

\* C10: the cancel function of every context made by WithTimeout or
\* WithDeadline for a stage has been invoked once the stage has finished.
C10_TokenReleased ==
    \A c \in Addrs :
        (Finished(c) /\ cmds[c].ctx # 0 /\ tokens[cmds[c].ctx].kind \in {"timeout", "deadline"})
        => tokens[cmds[c].ctx].released

(***************************************************************************)
(* Further claims about OrderedParallelizeChan.                            *)
(***************************************************************************)
\* C11: a call with a nil input has returned a nil result channel (not an
\* empty, closed one), for every worker count, has never called the
\* per-lane process function and has started neither goroutine.
C11_NilInputNilOutput ==
    (input.isNil /\ pcMain = "returned")
    => /\ output = NilChan
       /\ processCalls = 0
       /\ workerInputs = <<>> /\ workerOutputs = <<>> /\ lanes = <<>>
       /\ dist.pc = "idle" /\ merge.pc = "idle"
       /\ result = <<>> /\ ~consumerDone

\* C11 witness: the call with a nil input and the largest worker count has
\* returned.
C11_Witness == input.isNil /\ pcMain = "returned" /\ workersArg = MaxWorkers

\* C12: a call with a worker count W <= 0 has made one lane and called the
\* per-lane stage once, runs as a call with W = 1 does (the coerced count
\* is 1), and what its consumer receives is, item by item, what the one
\* lane of a call with W = 1 produces for the same input.
C12_NonPositiveWorkersAsOne ==
    (workersArg <= 0 /\ ~input.isNil /\ pcMain = "returned")
    => /\ workers = 1
       /\ processCalls = 1
       /\ Len(workerInputs) = 1 /\ Len(workerOutputs) = 1 /\ Len(lanes) = 1
       /\ Len(merge.nilled) = 1
       /\ Len(result) <= Len(items)
       /\ result = SubSeq(MapProcess(items), 1, Len(result))
       /\ consumerDone => Len(result) = Len(items)

\* C12 witness: a call with W = 0 on the longest input has delivered
\* everything and its result channel was seen closed.
C12_Witness ==
    /\ workersArg = 0 /\ consumerDone
    /\ Len(items) = MaxItems /\ result = MapProcess(items)

(***************************************************************************)
(* Claims about ChanProcessor and ChanFilter.                              *)
(***************************************************************************)
RECURSIVE MapProcessor(_)
MapProcessor(s) ==
    IF s = <<>> THEN <<>> ELSE <<Processor(Head(s))>> \o MapProcessor(Tail(s))

\* The subsequence of the items of s that pass the filter.
RECURSIVE SelectFilter(_)
SelectFilter(s) ==
    IF s = <<>> THEN <<>>
    ELSE (IF Filter(Head(s)) THEN <<Head(s)>> ELSE <<>>) \o SelectFilter(Tail(s))

IsPrefix(s, u) == Len(s) <= Len(u) /\ s = SubSeq(u, 1, Len(s))

\* The call has returned, everything was delivered, the goroutine is over
\* and the consumer has seen the result channel closed.
StageTerminated(expected) ==
    /\ stage.pcMain = "returned" /\ stage.pc = "done"
    /\ stage.output.closed /\ stage.output.buf = <<>>
    /\ stage.result = expected /\ stage.consumerDone

\* C18: ChanFilter on a nil input returns nil; on a non-nil input its
\* result channel has the input's capacity, the consumer receives in
\* input order the items that pass the filter, each once, and when the
\* input is closed after finitely many items the consumer eventually has
\* received exactly that subsequence and sees the result closed.
C18_ChanFilter ==
    /\ []((stage.kind = "filter" /\ stage.pcMain = "returned")
           => IF stage.input.isNil
              THEN stage.output = NilChan /\ stage.pc = "idle" /\ stage.result = <<>>
              ELSE /\ stage.outCap = stage.capacity
                   /\ ~stage.output.isNil
                   /\ IsPrefix(stage.result, SelectFilter(stage.items))
                   /\ stage.consumerDone => stage.result = SelectFilter(stage.items))
    /\ (stage.kind = "filter" /\ ~stage.input.isNil)
           => <>[]StageTerminated(SelectFilter(stage.items))

\* C18 witness: a buffered input of the largest length with items that
\* pass and items that do not pass has been filtered to its end.
C18_Witness ==
    /\ stage.kind = "filter" /\ stage.capacity = MaxCap
    /\ Len(stage.items) = MaxItems
    /\ \E i, j \in DOMAIN stage.items :
          Filter(stage.items[i]) /\ ~Filter(stage.items[j])
    /\ StageTerminated(SelectFilter(stage.items))

\* C19: ChanProcessor on a nil input returns nil; on a non-nil input its
\* result channel has the input's capacity, the i-th item the consumer
\* receives is processor(i-th input item), and when the input is closed
\* after N items the consumer eventually has received exactly N items and
\* sees the result closed.
C19_ChanProcessor ==
    /\ []((stage.kind = "processor" /\ stage.pcMain = "returned")
           => IF stage.input.isNil
              THEN stage.output = NilChan /\ stage.pc = "idle" /\ stage.result = <<>>
              ELSE /\ stage.outCap = stage.capacity
                   /\ ~stage.output.isNil
                   /\ IsPrefix(stage.result, MapProcessor(stage.items))
                   /\ stage.consumerDone => Len(stage.result) = Len(stage.items))
    /\ (stage.kind = "processor" /\ ~stage.input.isNil)
           => <>[]StageTerminated(MapProcessor(stage.items))

\* C19 witness: a buffered input of the largest length has been processed
\* to its end.
C19_Witness ==
    /\ stage.kind = "processor" /\ stage.capacity = MaxCap
    /\ Len(stage.items) = MaxItems
    /\ StageTerminated(MapProcessor(stage.items))

(***************************************************************************)
(* Further claims about Command pipelines.                                 *)
(***************************************************************************)
\* Stage c is d or a stage upstream of d.
RECURSIVE FeedsInto(_, _)
FeedsInto(c, d) == d # 0 /\ (c = d \/ FeedsInto(c, cmds[d].previous))

\* An output accessor has been called on d: it has returned, or it is the
\* call in progress.
Requested(d) == hist[d].rets # {} \/ (stack # <<>> /\ stack[1].c = d)

\* Something of the execution of c has happened.
Started(c) ==
    \/ cmds[c].executed
    \/ hist[c].runs # <<>> \/ hist[c].attempts # <<>>
    \/ hist[c].sudo # <<>> \/ hist[c].sleeps > 0

\* C13: whatever builder and configuration calls and String() calls were
\* made, a stage has its executed flag set, or has run its command or
\* function (or any part of an attempt), only if an output accessor was
\* called on it or on a stage downstream of it.
C13_LazyExecution ==
    \A c \in Addrs :
        Started(c) => \E d \in Addrs : FeedsInto(c, d) /\ Requested(d)

\* C13 witness: a two-stage pipeline with an elevated head configured to
\* retry, both stages rendered with String(), with no accessor called and
\* nothing started.
C13_Witness ==
    /\ Len(cmds) = 2 /\ stack = <<>>
    /\ cmds[2].previous = 1
    /\ cmds[1].useSudo /\ cmds[1].retryCount = 1
    /\ hist[1].rendered = {<<"sudo", "flaky">>}
    /\ hist[2].rendered # {}
    /\ \A c \in Addrs : ~Started(c) /\ ~Requested(c)

\* C14: every output-accessor call on a stage, by whichever caller, has
\* returned only after the stage finished all its attempts, and has
\* returned the stage's final result.
C14_AccessorsReturnFinalResult ==
    \A c \in Addrs :
        hist[c].rets # {} => Finished(c) /\ hist[c].rets = {Result(cmds[c])}

\* C15: from any state in which a stage's executed flag is set, no step
\* changes its captured output, diagnostic text, failure value or exit
\* status.
C15_ResultsFixedOnceFlagSet ==
    [][\A c \in Addrs :
         cmds[c].executed => Result(cmds'[c]) = Result(cmds[c])]_vars

\* Stage d is inside a second or later attempt of its execution.
Retrying(d) == \E k \in DOMAIN stack : stack[k].c = d /\ stack[k].attempt >= 1

\* C16 as stated: when a stage with an upstream and retry count >= 1 has
\* made several attempts, the upstream's command or function has run
\* exactly once in total and every attempt got the same output and
\* failure from the upstream.
C16_UpstreamRunsOnce ==
    \A d \in Addrs :
        (Finished(d) /\ cmds[d].previous # 0 /\ cmds[d].retryCount >= 1
            /\ Len(hist[d].attempts) >= 2)
        => /\ Len(hist[cmds[d].previous].runs) = 1
           /\ \A i, j \in DOMAIN hist[d].attempts :
                 hist[d].attempts[i].upstream = hist[d].attempts[j].upstream

\* C16 amended: every attempt of a stage gets the same output and failure
\* from its upstream, which are the upstream's cached results; the
\* upstream executes once, with at most max(retryCount, 0) + 1 runs of its
\* own work, and during the second and later attempts of the downstream
\* stage the upstream's work does not run and its results do not change.
C16_UpstreamNotReExecuted ==
    /\ [](\A d \in Addrs :
            LET p == cmds[d].previous IN
            p # 0 =>
              /\ \A i \in DOMAIN hist[d].attempts :
                    hist[d].attempts[i].upstream =
                        [asked |-> TRUE, stdout |-> cmds[p].stdout, err |-> cmds[p].err]
              /\ Len(hist[p].runs) <= MaxAttempts(cmds[p].retryCount))
    /\ [][\A d \in Addrs :
            (Retrying(d) /\ cmds[d].previous # 0)
            => /\ hist'[cmds[d].previous].runs = hist[cmds[d].previous].runs
               /\ Result(cmds'[cmds[d].previous]) = Result(cmds[cmds[d].previous])]_vars

\* C16 witness: a stage configured to retry made two attempts after an
\* upstream that itself ran twice (failed, was retried and succeeded), and
\* another made two attempts that both got the failure of its upstream.
C16_Witness ==
    \E d, e \in Addrs :
        /\ Finished(d) /\ cmds[d].previous # 0 /\ cmds[d].retryCount = 1
        /\ Len(hist[d].attempts) = 2
        /\ Len(hist[cmds[d].previous].runs) = 2
        /\ cmds[cmds[d].previous].err = Nil
        /\ Finished(e) /\ cmds[e].previous = d /\ cmds[e].retryCount = 1
        /\ Len(hist[e].attempts) = 2 /\ hist[e].runs = <<>>
        /\ hist[e].attempts[1].upstream.err # Nil
        /\ hist[e].attempts[2].upstream = hist[e].attempts[1].upstream

\* The input of a head stage: its input source, else the terminal for an
\* interactive process, else nothing.
HeadInput(cm) ==
    IF ~cm.input.isNil THEN <<0>>
    ELSE IF cm.cmdFn.isNil /\ cm.interactive THEN <<-1>>
    ELSE <<>>

\* The transforms of the stages up to c applied in chain order to the
\* head's input (a stage's transform appends its address to its stdin).
RECURSIVE Composition(_)
Composition(c) ==
    (IF cmds[c].previous = 0 THEN HeadInput(cmds[c])
     ELSE Composition(cmds[c].previous)) \o <<c>>

\* Every stage up to c has executed and succeeded, with no failed attempt.
RECURSIVE AllSucceeded(_)
AllSucceeded(c) ==
    c = 0 \/ (/\ Finished(c) /\ cmds[c].err = Nil /\ Len(hist[c].attempts) = 1
              /\ AllSucceeded(cmds[c].previous))

\* No process stage up to c is interactive (attached to the terminal).
RECURSIVE AllCaptured(_)
AllCaptured(c) ==
    c = 0 \/ (/\ ~(cmds[c].cmdFn.isNil /\ cmds[c].interactive)
              /\ AllCaptured(cmds[c].previous))

\* Every run of a stage with a predecessor got the predecessor's captured
\* output as stdin.
StdinIsUpstreamStdout ==
    \A c \in Addrs :
        cmds[c].previous # 0 =>
            \A i \in DOMAIN hist[c].runs :
                hist[c].runs[i].stdin.data = cmds[cmds[c].previous].stdout

Min(a, b) == IF a <= b THEN a ELSE b

\* C20: an execution of a stage with retry count R makes exactly
\* min(k, max(R, 0) + 1) attempts, k being the index of its first attempt
\* without failure: at least one, at most max(R, 0) + 1, none after a
\* successful one, and all of them unless one succeeds; a stage whose work
\* fails its first F runs (upstream succeeded) has k = F + 1.
C20_AttemptCount ==
    \A c \in Addrs :
        LET n == Len(hist[c].attempts)
            M == (IF cmds[c].retryCount < 0 THEN 0 ELSE cmds[c].retryCount) + 1
        IN /\ n <= M
           /\ \A i \in 1..(n - 1) : hist[c].attempts[i].err # Nil
           /\ Finished(c) =>
                /\ n >= 1
                /\ hist[c].attempts[n].err = Nil \/ n = M
                /\ cmds[c].err = hist[c].attempts[n].err
                /\ (Flaky(c) /\ UpstreamOk(c)) => n = Min(Fails(c) + 1, M)

\* C20 witness: a head that succeeded at its second attempt, a stage with
\* retry count -1 that failed after its one attempt, and a stage with
\* retry count 1 that made two attempts, both failing.
C20_Witness ==
    \E c, d, e \in Addrs :
        /\ Finished(c) /\ cmds[c].retryCount = 1
        /\ Len(hist[c].attempts) = 2 /\ cmds[c].err = Nil
        /\ Finished(d) /\ cmds[d].retryCount = -1
        /\ Len(hist[d].attempts) = 1 /\ cmds[d].err # Nil
        /\ Finished(e) /\ cmds[e].retryCount = 1
        /\ Len(hist[e].attempts) = 2 /\ cmds[e].err # Nil

\* The events of stage c alternate, starting and ending with an attempt.
SleepsBetweenAttempts(c) ==
    LET e == hist[c].events IN
    /\ e # <<>> => e[1] = "attempt" /\ e[Len(e)] = "attempt"
    /\ \A i \in 1..(Len(e) - 1) : e[i] # e[i + 1]

Count(e, x) == Cardinality({i \in DOMAIN e : e[i] = x})

\* C21: a stage with a positive retry delay sleeps exactly once before each
\* attempt other than the first, never before the first and never after
\* the last: its sleeps and attempts alternate, starting and ending with
\* an attempt, so that a attempts come with exactly a - 1 sleeps, each
\* between two consecutive attempts.
C21_RetryDelayPlacement ==
    \A c \in Addrs :
        cmds[c].retryDelay > 0 =>
            LET e == hist[c].events
                a == Count(e, "attempt")
            IN /\ SleepsBetweenAttempts(c)
               /\ hist[c].sleeps = Count(e, "sleep")
               /\ a > 0 => hist[c].sleeps = a - 1
               /\ a = 0 => hist[c].sleeps = 0
               /\ Finished(c) => a = Len(hist[c].attempts)

\* C21 witness: a stage with a positive retry delay has finished after
\* three attempts and two sleeps.
C21_Witness ==
    \E c \in Addrs :
        /\ cmds[c].retryDelay > 0
        /\ Finished(c)
        /\ Len(hist[c].attempts) = 3
        /\ hist[c].events = <<"attempt", "sleep", "attempt", "sleep", "attempt">>

\* C22: a stage whose upstream has failed reports that failure after a
\* single attempt: it uses none of its retries and sleeps none of its
\* retry delays.
C22_UpstreamFailureNotRetried ==
    \A c \in Addrs :
        LET p == cmds[c].previous IN
        (Finished(c) /\ p # 0 /\ cmds[p].err # Nil) =>
            /\ cmds[c].err = cmds[p].err
            /\ Len(hist[c].attempts) = 1
            /\ hist[c].sleeps = 0

\* The input item a result item of a mapping or filtering lane stems from.
Origin(v) == IF process = "map" THEN v \div 2 ELSE v

\* C23: with at least one lane and a lane stage that emits at most one
\* output per input item in arrival order (the mapping stage, the filtering
\* stage), the result items appear in the order of the input items they
\* stem from.
C23_OrderWithAtMostOneOutput ==
    process \in {"map", "filter"} =>
        \A i, j \in DOMAIN result :
            i < j => Origin(result[i]) < Origin(result[j])

\* C24: with at least one lane, any input capacity and a lane stage that
\* emits at most one output per input item on an unbuffered output and
\* closes it when its input closes, once the input is closed the producer,
\* the distribution task, the lanes, the merge task and the receiving
\* consumer are never all blocked before the consumer has seen the result
\* channel closed.
C24_NoDeadlockWithAtMostOneOutput ==
    (/\ process \in {"map", "filter"}
     /\ laneCap = 0
     /\ pcMain = "returned"
     /\ input.closed
     /\ ~consumerDone) => ENABLED NextLanes

\* What the merge task has received from lane i so far: what the lane has
\* sent on its output, less what is still queued there.
Received(i) ==
    SubSeq(lanes[i].out, 1, Len(lanes[i].out) - Len(workerOutputs[i].buf))

\* The k-th items of the lanes in lane order, for the lanes that have one.
RECURSIVE Round(_, _, _)
Round(E, k, i) ==
    IF i > Len(E) THEN <<>>
    ELSE (IF k <= Len(E[i]) THEN <<E[i][k]>> ELSE <<>>) \o Round(E, k, i + 1)

\* The round-robin interleaving of the sequences E[1], ..., E[W]: all first
\* items in lane order, then all second items, and so on.
RECURSIVE Rounds(_, _)
Rounds(E, k) ==
    IF \A i \in DOMAIN E : Len(E[i]) < k THEN <<>>
    ELSE Round(E, k, 1) \o Rounds(E, k + 1)

Interleaving(E) == Rounds(E, 1)

\* What the merge task has received and sent or is about to send on output.
Forwarded ==
    result \o output.buf \o (IF merge.pc = "send" THEN <<merge.val>> ELSE <<>>)

RECURSIVE SumOf(_)
SumOf(s) == IF s = <<>> THEN 0 ELSE Head(s) + SumOf(Tail(s))

\* The sum of the input items number i - 1, i - 1 + W, i - 1 + 2W, ...
LaneSum(i) ==
    SumOf([k \in 1..Len(items) |-> IF (k - 1) % workers = i - 1 THEN items[k] ELSE 0])

\* C25: for every lane stage (mapping, filtering, batching), what the merge
\* task forwards is the round-robin interleaving of what it received from
\* the lanes: each item once, the items of a lane in their order, the k-th
\* item of lane a before the k-th item of lane b for a < b and before the
\* (k+1)-th item of every lane; when the consumer has seen the result
\* closed it has received every item every lane emitted; three batching
\* lanes that each got an item give the three sums in lane order.
C25_MergeInterleavesLanes ==
    /\ Forwarded = Interleaving([i \in DOMAIN lanes |-> Received(i)])
    /\ consumerDone =>
          /\ \A i \in DOMAIN lanes : lanes[i].pc = "done"
          /\ result = Interleaving([i \in DOMAIN lanes |-> lanes[i].out])
    /\ (consumerDone /\ process = "sum" /\ workers = 3 /\ Len(items) >= 3) =>
          result = <<LaneSum(1), LaneSum(2), LaneSum(3)>>

\* C25 witness: three batching lanes on the items 1..6 gave the sums 5, 7,
\* 9 in lane order, and the consumer has seen the result closed.
C25_Witness ==
    /\ process = "sum" /\ workers = 3 /\ items = <<1, 2, 3, 4, 5, 6>>
    /\ consumerDone
    /\ result = <<5, 7, 9>>

\* The input items number i - 1, i - 1 + W, ... in their order: those with
\* (k - 1) % W = i - 1 among the first n items.
RECURSIVE LaneItems(_, _)
LaneItems(i, n) ==
    IF n = 0 THEN <<>>
    ELSE IF (n - 1) % workers = i - 1
         THEN Append(LaneItems(i, n - 1), items[n])
         ELSE LaneItems(i, n - 1)

NoDuplicates(s) == \A i, j \in DOMAIN s : s[i] = s[j] => i = j

\* C26: the distribution task sends input item number i (from 0) to lane
\* i mod W and to no other lane, each item once: its k-th send is the k-th
\* item on lane ((k - 1) mod W) + 1, and what a lane has received or has
\* queued is its share of the items sent.  It closes each lane input once,
\* only after the source is exhausted and every item has been sent, and
\* never stands at a send once a lane input is closed.
C26_Distribution ==
    LET n == Len(dist.sent) IN
    /\ n <= Len(items)
    /\ \A k \in 1..n : dist.sent[k] = <<((k - 1) % workers) + 1, items[k]>>
    /\ \A i \in DOMAIN lanes :
          lanes[i].got \o workerInputs[i].buf = LaneItems(i, n)
    /\ NoDuplicates(dist.closed)
    /\ \A i \in DOMAIN workerInputs :
          workerInputs[i].closed <=> \E k \in DOMAIN dist.closed : dist.closed[k] = i
    /\ dist.closed # <<>> =>
          /\ dist.pc \in {"close", "done"}
          /\ src = <<>> /\ Drained(input)
          /\ n = Len(items)
    /\ dist.pc = "done" => Len(dist.closed) = workers

\* C26 witness: six items went to three lanes, two each, and the
\* distribution task has closed the three lane inputs and ended.
C26_Witness ==
    /\ workers = 3 /\ Len(items) = 6
    /\ dist.pc = "done"
    /\ Len(dist.sent) = 6
    /\ \A i \in 1..3 : Len(lanes[i].got) + Len(workerInputs[i].buf) = 2
    /\ dist.closed = <<1, 2, 3>>

Retired(i) == \E k \in DOMAIN merge.retired : merge.retired[k] = i

\* C27: once the merge task runs, its counter is the number of lanes not
\* retired; a lane is retired once, its output closed and empty, and the
\* value the task is about to send never comes from a retired lane; the
\* result channel is closed once, by the task's last step, with the counter
\* at 0 and every lane retired, and the task sends nothing after it.
C27_MergeRetirement ==
    merge.pc # "idle" =>
        /\ NoDuplicates(merge.retired)
        /\ \A k \in DOMAIN merge.retired : merge.retired[k] \in 1..workers
        /\ merge.activeCount = Cardinality({i \in 1..workers : ~Retired(i)})
        /\ \A i \in 1..workers :
              /\ Retired(i) <=> merge.nilled[i]
              /\ Retired(i) => Drained(workerOutputs[i]) /\ lanes[i].pc = "done"
        /\ merge.pc = "send" => ~Retired(merge.from)
        /\ output.closed <=> merge.pc = "done"
        /\ merge.closes = (IF merge.pc = "done" THEN 1 ELSE 0)
        /\ merge.pc = "done" =>
              /\ merge.activeCount = 0
              /\ \A i \in 1..workers : Retired(i)

\* C27 witness: of three lanes the second and the third closed before the
\* first; the merge task retired them in that order, then the first, and
\* closed the result channel.
C27_Witness ==
    /\ workers = 3
    /\ merge.pc = "done"
    /\ merge.retired = <<2, 3, 1>>
    /\ merge.activeCount = 0
    /\ output.closed

\* C28: when the producer never closes the input channel, the result
\* channel is never closed and neither the distribution task nor the merge
\* task ends: no lane input is closed, no lane is retired, and the consumer
\* never sees the end of the result.
C28_NoCancellation ==
    /\ ~input.closed
    /\ ~output.closed
    /\ dist.pc \in {"idle", "range", "send"}
    /\ merge.pc \in {"idle", "loop", "send"}
    /\ \A i \in DOMAIN workerInputs : ~workerInputs[i].closed
    /\ merge.retired = <<>>
    /\ ~consumerDone

\* C28 witness: three mapping lanes, every one of the six items has been
\* sent by the producer and delivered to the consumer, and the distribution
\* task is at its range over the input and the merge task in its loop.
C28_Witness ==
    /\ process = "map" /\ workers = 3 /\ Len(items) = 6
    /\ src = <<>>
    /\ result = MapProcess(items)
    /\ dist.pc = "range"
    /\ merge.pc = "loop"
    /\ ~output.closed

\* The number of items the distribution task has taken from the input.
Removed == Len(dist.sent) + (IF dist.pc = "send" THEN 1 ELSE 0)

\* The number of items the lanes have received and neither sent nor hold.
RECURSIVE DroppedUpTo(_)
DroppedUpTo(i) ==
    IF i = 0 THEN 0
    ELSE DroppedUpTo(i - 1) + Len(lanes[i].got) - Len(lanes[i].out)
                            - (IF lanes[i].pc = "send" THEN 1 ELSE 0)

Dropped == DroppedUpTo(Len(lanes))

\* No queue the call made holds more than the capacity C of the input.
QueuesMirrorInput ==
    /\ \A i \in DOMAIN workerInputs : Len(workerInputs[i].buf) <= capacity
    /\ Len(output.buf) <= capacity

Backlog == (workers + 1) * (capacity + 1) + 1

\* C29 as stated: the lane input queues and the result queue have the
\* capacity C of the input, and with a consumer that never receives and a
\* lane stage that holds at most one item in flight and has an unbuffered
\* output (the mapping stage, the filtering stage) the distribution task
\* takes at most (W+1)*(C+1)+1 items from the input.
C29_BackpressureAsStated ==
    /\ QueuesMirrorInput
    /\ (process \in {"map", "filter"} /\ laneCap = 0) => Removed <= Backlog

\* C29 amended: the same bound holds for the items taken from the input
\* that no lane has dropped; a lane stage emitting one output per input
\* drops nothing, and the distribution task takes at most (W+1)*(C+1)+1.
C29_Backpressure ==
    /\ QueuesMirrorInput
    /\ (process \in {"map", "filter"} /\ laneCap = 0) =>
          /\ Dropped >= 0
          /\ Removed - Dropped <= Backlog
    /\ (process = "map" /\ laneCap = 0) => Dropped = 0 /\ Removed <= Backlog

\* C29 witness: one mapping lane and capacity 1: of six items the
\* distribution task has taken five, (W+1)*(C+1)+1, one is queued on the
\* result, one on the lane input and one on the input, and no task can
\* take a step.
C29_Witness ==
    /\ process = "map" /\ laneCap = 0 /\ workers = 1 /\ capacity = 1
    /\ Len(items) = 6
    /\ Removed = 5
    /\ dist.pc = "send" /\ lanes[1].pc = "send" /\ merge.pc = "send"
    /\ Len(output.buf) = 1 /\ Len(workerInputs[1].buf) = 1 /\ Len(input.buf) = 1
    /\ ~ENABLED NextNoConsumer

\* The work of stage c (its command or function) runs in this step.
Works(c) == c \in DOMAIN hist /\ Len(hist'[c].runs) > Len(hist[c].runs)

\* Every execute() below the innermost one stands at its demand of the
\* output of the stage above it, which is its upstream.
WaitingOnUpstream ==
    \A i \in 1..(Len(stack) - 1) :
        stack[i].pc = "prev" /\ cmds[stack[i].c].previous = stack[i + 1].c

\* C30: in a pipeline whose output is requested, the work of a stage runs
\* only when the execution of every stage upstream of it has returned, all
\* attempts made, and before any work of a stage downstream of it; a step
\* runs the work of one stage only, that of the innermost execute(), while
\* every other execute() in progress waits for its upstream's output.
C30_SequentialStages ==
    [][\A c \in Addrs :
         Works(c) =>
            /\ stack # <<>> /\ stack[Len(stack)].c = c
            /\ WaitingOnUpstream
            /\ \A d \in Addrs :
                  /\ d # c => hist'[d].runs = hist[d].runs
                  /\ (d # c /\ FeedsInto(d, c)) =>
                        /\ Finished(d)
                        /\ hist[d].attempts # <<>>
                        /\ hist'[d] = hist[d] /\ cmds'[d] = cmds[d]
                  /\ (d # c /\ FeedsInto(c, d)) => hist[d].runs = <<>>]_vars

\* C30 witness: the output of the tail of a pipeline of three stages was
\* requested, and of no other stage; the head ran twice, then the second
\* stage, then the tail.
C30_Witness ==
    /\ Len(cmds) = 3 /\ stack = <<>>
    /\ cmds[2].previous = 1 /\ cmds[3].previous = 2
    /\ \A c \in 1..3 : Finished(c)
    /\ hist[3].rets # {} /\ hist[1].rets = {} /\ hist[2].rets = {}
    /\ Len(hist[1].runs) = 2 /\ Len(hist[2].runs) = 1 /\ Len(hist[3].runs) = 1

\* Where the stdin of a function stage comes from.
FnSource(cm) ==
    IF cm.previous # 0 THEN "previous"
    ELSE IF ~cm.input.isNil THEN "input"
    ELSE "empty"

\* The attempts of c in which its function was invoked: those that met
\* neither a failed upstream nor a failing read of the input source.
Invoking(c) ==
    {i \in DOMAIN hist[c].attempts :
        /\ hist[c].attempts[i].upstream.err = Nil
        /\ ~(cmds[c].previous = 0 /\ cmds[c].input.broken)}

InAttempt(c) == \E i \in DOMAIN stack : stack[i].c = c /\ stack[i].pc = "prev"

Elevated(c) == cmds[c].cmdFn.isNil /\ cmds[c].useSudo

\* The attempts of c whose elevation exchange succeeded and which found no
\* failed upstream: those that run the stage's command.
Running(c) ==
    {i \in DOMAIN hist[c].attempts :
        /\ hist[c].sudo[i] # "denied"
        /\ hist[c].attempts[i].upstream.err = Nil}

\* C32: every attempt of an elevated process stage begins with one
\* elevation exchange: the probe, and one interactive authentication if and
\* only if the probe failed.  An attempt whose authentication failed ends
\* with the authentication failure without running the stage's command;
\* the command is run, elevated, only in attempts whose probe or
\* authentication succeeded.  Other stages make no exchange.
C32_ElevationProtocol ==
    \A c \in Addrs :
        LET h == hist[c] IN
        IF Elevated(c)
        THEN /\ Len(h.sudo) = Len(h.attempts) + (IF InAttempt(c) THEN 1 ELSE 0)
             /\ \A i \in DOMAIN h.sudo : h.sudo[i] \in SudoOutcomes
             /\ \A i \in DOMAIN h.attempts :
                   h.sudo[i] = "denied" =>
                       /\ h.attempts[i].err = AuthError
                       /\ ~h.attempts[i].upstream.asked
             /\ Len(h.runs) = Cardinality(Running(c))
             /\ \A k \in DOMAIN h.runs : h.runs[k].elevated
             /\ (Finished(c) /\ h.sudo[Len(h.sudo)] = "denied") =>
                   cmds[c].err = AuthError
        ELSE /\ h.sudo = <<>>
             /\ \A k \in DOMAIN h.runs : ~h.runs[k].elevated

\* C32 witness: an elevated stage with one retry was denied in its first
\* attempt, which ran nothing, and authenticated interactively in its
\* second, which ran its command elevated.
C32_Witness ==
    \E c \in Addrs :
        /\ Elevated(c) /\ Finished(c)
        /\ hist[c].sudo = <<"denied", "authenticated">>
        /\ hist[c].attempts[1].err = AuthError
        /\ Len(hist[c].runs) = 1 /\ hist[c].runs[1].elevated
        /\ cmds[c].err = Nil

\* Stage c is a process stage whose process was run and whose execution
\* has returned; LastRun is what its last run wrote and how it ended.
ProcessRan(c) == cmds[c].cmdFn.isNil /\ Finished(c) /\ hist[c].runs # <<>>

LastRun(c) ==
    LET n == Len(hist[c].runs) IN RunProcess(c, cmds[c], n, hist[c].runs[n].stdin)

\* C33: an interactive process stage never holds captured output or
\* diagnostic text, and after its execution its failure value is that of
\* its run, the exit status being that of a failed exit; a non-interactive
\* process stage whose process was run holds the output and the diagnostic
\* text its last run wrote, whether that run succeeded or failed.
C33_CapturedOrTerminal ==
    \A c \in Addrs :
        cmds[c].cmdFn.isNil =>
            /\ cmds[c].interactive =>
                  cmds[c].stdout = <<>> /\ cmds[c].stderr = <<>>
            /\ ProcessRan(c) =>
                  /\ cmds[c].err = LastRun(c).err
                  /\ cmds[c].err.kind = "exit" =>
                        cmds[c].exitCode = cmds[c].err.status
                  /\ ~cmds[c].interactive =>
                        /\ cmds[c].stdout = LastRun(c).stdout
                        /\ cmds[c].stderr = LastRun(c).stderr

\* C33 witness: an interactive stage whose process succeeded holds no
\* text; the captured stage piped from it succeeded and holds its output;
\* the captured stage after that failed and holds its diagnostic text.
C33_Witness ==
    /\ Len(cmds) = 3
    /\ \A c \in 1..3 : ProcessRan(c)
    /\ cmds[1].interactive /\ cmds[1].err = Nil
    /\ cmds[1].stdout = <<>> /\ cmds[1].stderr = <<>>
    /\ ~cmds[2].interactive /\ cmds[2].err = Nil /\ cmds[2].stdout # <<>>
    /\ ~cmds[3].interactive /\ cmds[3].err # Nil /\ cmds[3].stderr # <<>>

\* C34: every run of a stage's work is given the stdin content of the
\* stage's first run, whether it comes from the upstream stage or from a
\* configured input reader.  (Violated: the reader of Input/InputReader is
\* the same object in every attempt and is at its end after the first.)
C34_SameInputOnEveryAttempt ==
    \A c \in Addrs :
        \A k \in 1..Len(hist[c].runs) :
            hist[c].runs[k].stdin.data = hist[c].runs[1].stdin.data

\* Stages a and b are two different stages piped from the same upstream.
Siblings(a, b) ==
    a # b /\ cmds[a].previous # 0 /\ cmds[a].previous = cmds[b].previous

\* C35 as stated: when the outputs of two stages piped from the same
\* upstream have both been requested, the upstream's work has run exactly
\* once in total.
C35_SharedUpstreamRunsOnce ==
    \A a, b \in Addrs :
        (Siblings(a, b) /\ Finished(a) /\ Finished(b))
        => Len(hist[cmds[a].previous].runs) = 1

\* C35 amended: two stages piped from the same upstream get, in every
\* attempt of either, the upstream's cached output and failure; the
\* upstream executes once, with at most max(retryCount, 0) + 1 runs of its
\* work, and once its execution has returned no later request changes its
\* fields or runs its work; Pipe and PipeFn change no field of any
\* existing stage.
C35_SharedUpstreamExecutedOnce ==
    /\ [](\A a, b \in Addrs :
            Siblings(a, b) =>
              LET p == cmds[a].previous
                  got == [asked |-> TRUE, stdout |-> cmds[p].stdout,
                          err |-> cmds[p].err]
              IN /\ \A i \in DOMAIN hist[a].attempts :
                        hist[a].attempts[i].upstream = got
                 /\ \A j \in DOMAIN hist[b].attempts :
                        hist[b].attempts[j].upstream = got
                 /\ Len(hist[p].runs) <= MaxAttempts(cmds[p].retryCount)
                 /\ Len(hist[p].attempts) <= MaxAttempts(cmds[p].retryCount))
    /\ [][\A p \in Addrs :
            Finished(p) => /\ cmds'[p] = cmds[p]
                           /\ hist'[p].runs = hist[p].runs
                           /\ hist'[p].attempts = hist[p].attempts]_vars
    /\ [][Len(cmds') > Len(cmds)
            => \A c \in Addrs : cmds'[c] = cmds[c] /\ hist'[c] = hist[c]]_vars

\* C35 witness: a process stage and a function stage piped from the same
\* upstream were both requested and succeeded on the output of the
\* upstream, whose work ran twice (it failed and was retried).
C35_Witness ==
    \E a, b \in Addrs :
        /\ Siblings(a, b)
        /\ cmds[a].cmdFn.isNil /\ ~cmds[b].cmdFn.isNil
        /\ Finished(a) /\ Finished(b)
        /\ hist[a].rets # {} /\ hist[b].rets # {}
        /\ cmds[a].err = Nil /\ cmds[b].err = Nil
        /\ Len(hist[cmds[a].previous].runs) = 2
        /\ cmds[cmds[a].previous].err = Nil
        /\ hist[a].runs[1].stdin.data = cmds[cmds[a].previous].stdout
        /\ hist[b].runs[1].stdin.data = cmds[cmds[a].previous].stdout

\* The execution of stage c has returned (told from its history, not
\* from its flag).
HasExecuted(c) == hist[c].attempts # <<>> /\ ~OnStack(c)

\* C36: once the execution of a stage has returned, no step (and so no
\* configuration call on it, in any sequence) changes its captured
\* output, diagnostic text, failure or exit status, clears its executed
\* flag, starts another execution of it or adds a run or an attempt; and
\* every request on it returns those same results.
C36_ConfigurationAfterExecution ==
    /\ [](\A c \in Addrs :
            HasExecuted(c) => hist[c].rets \subseteq {Result(cmds[c])})
    /\ [][\A c \in Addrs :
            HasExecuted(c) => /\ Result(cmds'[c]) = Result(cmds[c])
                              /\ cmds'[c].executed
                              /\ ~OnStack(c)'
                              /\ hist'[c].runs = hist[c].runs
                              /\ hist'[c].attempts = hist[c].attempts
                              /\ hist'[c].sleeps = hist[c].sleeps
                              /\ hist'[c].sudo = hist[c].sudo]_vars

\* C36 witness: a head stage that failed in its only attempt, without
\* input, has since been given a retry count and an input, still unread,
\* and was requested; the stage piped from it was requested and got the
\* failure.
C36_Witness ==
    /\ Len(cmds) = 2 /\ Idle
    /\ HasExecuted(1) /\ HasExecuted(2)
    /\ Len(hist[1].attempts) = 1 /\ Len(hist[1].runs) = 1
    /\ hist[1].runs[1].stdin.src = "empty"
    /\ cmds[1].err # Nil
    /\ cmds[1].retryCount = 1 /\ cmds[1].input.data = <<0>>
    /\ hist[1].rets = {Result(cmds[1])}
    /\ hist[2].rets = {Result(cmds[2])}
    /\ cmds[2].err = cmds[1].err /\ hist[2].runs = <<>>

\* Some run of stage c was made with its context done.
RanWhenDone(c) == \E k \in DOMAIN hist[c].runs : hist[c].runs[k].done

\* C37: every run of a process stage is made with the one context the
\* stage was configured with; a run made when that context is done
\* (cancelled, or its deadline passed) fails, and so does every later run,
\* the context staying done; and the stage still makes all its
\* max(retryCount, 0) + 1 attempts, with a sleep before each retry when
\* the delay is positive, before its failure is final.
C37_OneTokenForAllAttempts ==
    \A c \in Addrs :
        cmds[c].cmdFn.isNil =>
            LET runs == hist[c].runs IN
            /\ \A k \in DOMAIN runs :
                  /\ runs[k].ctx = cmds[c].ctx
                  /\ runs[k].done =>
                        /\ ~runs[k].ok
                        /\ \A j \in DOMAIN runs : j > k => runs[j].done
            /\ (Finished(c) /\ RanWhenDone(c)) =>
                  /\ cmds[c].err # Nil
                  /\ Len(hist[c].attempts) = MaxAttempts(cmds[c].retryCount)
                  /\ hist[c].sleeps = IF cmds[c].retryDelay > 0
                                      THEN Len(hist[c].attempts) - 1 ELSE 0

\* C37 witness: a stage with a timeout, two retries and a delay failed on
\* its own in its first run, its deadline passed, and its second and
\* third runs, each after a sleep, were made with the context done.
C37_Witness ==
    \E c \in Addrs :
        /\ Finished(c) /\ cmds[c].ctx # 0
        /\ tokens[cmds[c].ctx].kind = "timeout"
        /\ cmds[c].retryCount = 2 /\ cmds[c].retryDelay = 1
        /\ Len(hist[c].runs) = 3 /\ Len(hist[c].attempts) = 3
        /\ ~hist[c].runs[1].done /\ hist[c].runs[2].done /\ hist[c].runs[3].done
        /\ hist[c].sleeps = 2
        /\ cmds[c].err # Nil

\* The elevation exchanges of stage c were all denied.
AlwaysDenied(c) ==
    hist[c].sudo # <<>> /\ \A k \in DOMAIN hist[c].sudo : hist[c].sudo[k] = "denied"

\* The exchange of the attempt in progress of stage c has been made and
\* has let the attempt go on.
ExchangeDone(c) ==
    /\ Len(hist[c].sudo) = Len(hist[c].attempts) + 1
    /\ hist[c].sudo[Len(hist[c].sudo)] # "denied"

\* C38 as stated: when the request on an elevated process stage with an
\* upstream has ended with the authentication failure, the upstream, not
\* requested itself, has not been executed.
C38_DeniedRequestLeavesUpstream ==
    \A c \in Addrs :
        (/\ cmds[c].cmdFn.isNil /\ cmds[c].useSudo /\ cmds[c].previous # 0
         /\ Finished(c) /\ cmds[c].err = AuthError
         /\ ~Requested(cmds[c].previous))
        => ~Started(cmds[c].previous)

\* C38 amended: in an elevated process stage with an upstream, an attempt reaches
\* the point where it demands the upstream's output only after its
\* elevation exchange, and the upstream starts executing on that demand
\* only then; every attempt has its exchange, also those that got the
\* upstream's failure; an attempt got an answer from the upstream exactly
\* when its exchange was not denied; and when every exchange of the stage
\* was denied and the upstream was not requested itself, the upstream has
\* not started.
C38_ElevationBeforeUpstream ==
    /\ [](\A c \in Addrs :
            (cmds[c].cmdFn.isNil /\ cmds[c].useSudo /\ cmds[c].previous # 0) =>
              LET p == cmds[c].previous IN
              /\ \A i \in DOMAIN stack :
                    (stack[i].c = c /\ stack[i].pc = "prev") => ExchangeDone(c)
              /\ Len(hist[c].sudo) >= Len(hist[c].attempts)
              /\ \A k \in DOMAIN hist[c].attempts :
                    hist[c].attempts[k].upstream.asked <=> hist[c].sudo[k] # "denied"
              /\ (Finished(c) /\ AlwaysDenied(c) /\ ~Requested(p)) => ~Started(p))
    /\ [][\A c \in Addrs :
            (/\ cmds[c].cmdFn.isNil /\ cmds[c].useSudo /\ cmds[c].previous # 0
             /\ stack # <<>> /\ Top.c = c
             /\ ~cmds[cmds[c].previous].executed
             /\ cmds'[cmds[c].previous].executed)
            => ExchangeDone(c)]_vars

\* C38 witness: the first attempt of an elevated stage was denied and left
\* its upstream alone; its retry was authenticated, demanded the upstream,
\* which only then executed, and got its failure.
C38_Witness ==
    \E c \in Addrs :
        /\ cmds[c].cmdFn.isNil /\ cmds[c].useSudo /\ cmds[c].previous # 0
        /\ Finished(c)
        /\ hist[c].sudo = <<"denied", "authenticated">>
        /\ Len(hist[c].attempts) = 2
        /\ ~hist[c].attempts[1].upstream.asked
        /\ hist[c].attempts[2].upstream.asked
        /\ hist[c].attempts[2].upstream.err # Nil
        /\ hist[c].runs = <<>>
        /\ hist[cmds[c].previous].rets = {}
        /\ Finished(cmds[c].previous)

====
